---- MODULE Spec2Model ----
(***************************************************************************)
(* Model of update-version (Drew-Chase/update-version).                    *)
(*                                                                         *)
(* Part 1: the git release state machine of src/git.rs                     *)
(* (GitTracker::execute_git_mode and the operations it calls) over an      *)
(* abstract repository: working tree, index (the handle's in-memory index  *)
(* and the index file on disk), commit history, tags and the remote.       *)
(*                                                                         *)
(* Part 2: the semver increment of src/parsers/mod.rs (increment_semver).  *)
(*                                                                         *)
(* Part 3: the credentials callback of src/git.rs                          *)
(* (GitTracker::create_auth_callbacks).                                    *)
(*                                                                         *)
(* Part 4: file discovery and rewriting of src/parsers/mod.rs              *)
(* (Parser::get_matching_files, Parser::update_version).                   *)
(***************************************************************************)
EXTENDS Integers, Sequences, FiniteSets, TLC

\* ------------------------------------------------------------------ bounds
\* Length of the commit history (initial commit included).
MaxCommits == 3

\* ------------------------------------------------------------- path algebra
\* A path is a sequence of components.
repo_root == <<"repo">>

CargoToml   == <<"Cargo.toml">>
CargoLock   == <<"Cargo.lock">>
PackageJson == <<"package.json">>
Notes       == <<"notes.txt">>
Gone        == <<"gone.json">>

\* Paths relative to the repository root that the model tracks.
RelPaths == {CargoToml, CargoLock, PackageJson, Notes, Gone}

\* A file outside the working directory (exists on disk).
OutsideFile == <<"tmp", "Cargo.toml">>

\* Path::join of the root and a relative path.
Abs(rel) == repo_root \o rel

\* The file lists handed to stage_files / execute_git_mode.
FileLists ==
    { <<>>,
      << Abs(CargoToml), <<"repo", ".", "package.json">> >>,
      << Abs(PackageJson), OutsideFile, Abs(CargoToml) >>,
      << Abs(Gone) >> }

\* OsStr::eq_ignore_ascii_case compares the ASCII-lowercased names.
Lower(name) ==
    CASE name = "Cargo.toml" -> "cargo.toml"
      [] name = "Cargo.lock" -> "cargo.lock"
      [] OTHER -> name

file_name(p) == p[Len(p)]
with_file_name(p, name) == SubSeq(p, 1, Len(p) - 1) \o <<name>>

\* Path::canonicalize: removes "." components (the path must exist).
Canon(p) == SelectSeq(p, LAMBDA c : c # ".")

starts_with(p, prefix) ==
    /\ Len(p) >= Len(prefix)
    /\ SubSeq(p, 1, Len(prefix)) = prefix

\* Path::strip_prefix, defined when starts_with(p, prefix).
strip_prefix(p, prefix) == SubSeq(p, Len(prefix) + 1, Len(p))

\* ------------------------------------------------------------------- modes
GitModes == {"None", "Commit", "CommitPush", "CommitPushTag", "CommitTag"}

Versions == {"1.0.0", "1.0.1"}

EmptyFn == [x \in {} |-> 0]

\* File contents are abstracted to revisions: 0 = the file is absent, 1 = the
\* content of the initial commit, 2 = the content after a modification.

VARIABLES
    worktree,     \* the files of the working directory: RelPaths -> content
    index,        \* the repository handle's in-memory index
    diskIndex,    \* the index file on disk
    commits,      \* the history of HEAD's branch: Seq of [message, parents]
    headTree,     \* the tree of the HEAD commit
    tags,         \* tag name -> [target, message]
    ignored,      \* relative paths matched by the repository ignore rules
    identity,     \* user.name / user.email are configured
    call,         \* the operation in progress or last returned
    pc,           \* position inside the operation
    mode,         \* execute_git_mode's arguments
    version,
    files,
    i,            \* stage_files: position in the file list (1-based)
    arg,          \* arguments of a direct create_tag / create_commit call
    commit_id,    \* local of execute_git_mode (0 = not yet set)
    result,       \* "none" while running, then "ok" or "err"
    steps,        \* the steps this run has entered, in order
    errAt,        \* the call that returned the error
    statusSeen,   \* what the change check saw
    netlog,       \* the push calls of this run
    old,          \* the repository when the operation was called
    repeat,       \* this run repeats the previous call, nothing done in between
    base          \* length of the history before the first of the two calls

repoVars == << worktree, index, diskIndex, commits, headTree, tags >>
envVars  == << ignored, identity >>

\* The variables of part 1.
gitVars == << worktree, index, diskIndex, commits, headTree, tags, ignored,
              identity, call, pc, mode, version, files, i, arg, commit_id,
              result, steps, errAt, statusSeen, netlog, old, repeat, base >>

VARIABLES
    semver_in,        \* increment_semver: the argument `version`
    semver_out,       \* what the call produced: Ok(next), Err or a panic
    overflow_checks,  \* the build traps integer overflow (debug profile)
    incs              \* number of increments applied in a row

semverVars == << semver_in, semver_out, overflow_checks, incs >>

VARIABLES
    cb_op,      \* the network operation that built the callback instance
    cb_pc,      \* "called" while an invocation of the callback runs
    attempts,   \* the instance's counter: Cell<u32>
    cb_in,      \* what the last invocation was given and found
    tried,      \* the strategies the last invocation tried, with outcome
    cred_out,   \* what the last invocation returned
    finished    \* the instances built before: whether each was invoked
                \* more often than the cap allows

credVars == << cb_op, cb_pc, attempts, cb_in, tried, cred_out, finished >>

VARIABLES
    fs,          \* the content of the files of the project tree
    ignore_cfg,  \* the ignore files of the tree and whether it has a .git
    options,     \* WalkOptions
    rw_op,       \* the Parser operation called
    rw_pc,       \* position inside it
    walked,      \* the entries the directory walk has yielded, in its order
    matching,    \* get_matching_files: the Vec `files`
    rw_i,        \* update_version: position in the file list (1-based)
    fs0,         \* the content of the files when the operation was called
    rw_result    \* "none" while running, then "ok" or "err"

rwVars == << fs, ignore_cfg, options, rw_op, rw_pc, walked, matching, rw_i,
             fs0, rw_result >>

VARIABLES
    parser,          \* the Parser implementation the operation is called on
    root_state,      \* the directory `path`: "dir", "missing" or "unreadable"
    disk,            \* the text of the files below `path`
    disk0,           \* the text of the files when the operation was called
    eng_op,          \* the Parser operation called
    eng_pc,          \* position inside it
    eng_files,       \* the Vec `files` that get_matching_files returned
    eng_i,           \* position of the `for file in files` loop (1-based)
    current_version, \* increment_version: `current_version`
    new_version,     \* update_version's `version` / increment_version's `new_version`
    eng_out          \* what the operation returned

engVars == << parser, root_state, disk, disk0, eng_op, eng_pc, eng_files,
              eng_i, current_version, new_version, eng_out >>

VARIABLES
    cli_args,        \* main: the parsed command line `args`
    formats,         \* per format: whether files of it exist, and their version text
    main_pc,         \* position inside main
    apply_i,         \* position in the selected formats (1-based)
    final_version,   \* main: `final_version`
    modified_files,  \* main: `modified_files`
    trace,           \* the calls main has made, in order
    main_out         \* "running", then how main ended

cliVars == << cli_args, formats, main_pc, apply_i, final_version,
              modified_files, trace, main_out >>

\* The variables of the other parts, which part 1 leaves alone.
nonGitVars == << semverVars, credVars, rwVars, engVars, cliVars >>

vars == << gitVars, nonGitVars >>

\* No call of increment_semver has been made.
NoVersion == [major |-> 0, minor |-> 0, patch |-> <<0>>, pre |-> <<>>, build |-> <<>>]
NoOutcome == [kind |-> "none", next |-> NoVersion]

SemverIdle ==
    /\ semver_in = NoVersion
    /\ semver_out = NoOutcome
    /\ overflow_checks = FALSE
    /\ incs = 0

\* No callback instance exists.
NoCbIn ==
    [allowed_types |-> {}, username_from_url |-> "", home |-> FALSE, keys |-> {}]
NoCred == [kind |-> "none", strategy |-> "none", username |-> "", error |-> ""]

CredIdle ==
    /\ cb_op = "none"
    /\ cb_pc = "idle"
    /\ attempts = 0
    /\ cb_in = NoCbIn
    /\ tried = <<>>
    /\ cred_out = NoCred
    /\ finished = <<>>

\* No Parser operation has been called, on an empty tree.
RwIdle ==
    /\ fs = <<>>
    /\ ignore_cfg = <<>>
    /\ options = [no_ignore |-> FALSE]
    /\ rw_op = "none"
    /\ rw_pc = "idle"
    /\ walked = <<>>
    /\ matching = <<>>
    /\ rw_i = 1
    /\ fs0 = <<>>
    /\ rw_result = "none"

\* Part 1 runs with the other parts at rest.
\* No Parser operation has been called on file texts.
NoResult == [kind |-> "none", version |-> NoVersion, error |-> "", root |-> <<>>]

EngIdle ==
    /\ parser = "none"
    /\ root_state = "dir"
    /\ disk = <<>>
    /\ disk0 = <<>>
    /\ eng_op = "none"
    /\ eng_pc = "idle"
    /\ eng_files = <<>>
    /\ eng_i = 1
    /\ current_version = NoVersion
    /\ new_version = NoVersion
    /\ eng_out = NoResult

\* main has not been started.
CliIdle ==
    /\ cli_args = <<>>
    /\ formats = <<>>
    /\ main_pc = "idle"
    /\ apply_i = 1
    /\ final_version = NoVersion
    /\ modified_files = <<>>
    /\ trace = <<>>
    /\ main_out = "none"

NonGitIdle == SemverIdle /\ CredIdle /\ RwIdle /\ EngIdle /\ CliIdle

\* ------------------------------------------------------------ repository
\* Path::exists / canonicalize's existence check.
Exists(abs) ==
    IF starts_with(abs, repo_root)
    THEN LET rel == strip_prefix(abs, repo_root)
         IN  rel \in RelPaths /\ worktree[rel] # 0
    ELSE abs = OutsideFile

\* Repository::is_path_ignored(relative).unwrap_or(false)
is_path_ignored_never(relative) == FALSE
is_path_ignored(relative) == relative \in ignored

\* Index::add_path: the entry takes the file's current content.
add_path(idx, wt, relative) == [idx EXCEPT ![relative] = wt[relative]]

\* file_name().is_some_and(|n| n.eq_ignore_ascii_case("Cargo.toml"))
is_cargo_toml(name) == Lower(name) = Lower("Cargo.toml")

\* Outcomes of Command::new("cargo").arg("update").status():
\*   spawn_error: Err(e);  nonzero: Ok(s), !s.success();  success: Ok(s).
CargoOutcomes == {"spawn_error", "nonzero", "success"}

\* Effect of the cargo update process on the working tree: on success the
\* lock file is written for the manifest's current content.
cargo_update(wt, manifest_rel, lock_rel, outcome) ==
    IF outcome = "success"
    THEN [wt EXCEPT ![lock_rel] = wt[manifest_rel]]
    ELSE wt

\* Repository::statuses(None): the paths whose index entry differs from HEAD
\* or whose working-tree file differs from the index (untracked and ignored
\* files included, libgit2's defaults).
statuses == { p \in RelPaths : headTree[p] # index[p] \/ index[p] # worktree[p] }

\* ------------------------------------------------------ execute_git_mode
mode_is_commit(m) == m = "Commit"
\* mode == GitMode::None
mode_is_none(m) == m = "None"

commit_message_plain(v) == "bump version to " \o v
\* format!("chore: bump version to {}", version)
commit_message(v) == "chore: bump version to " \o v

\* format!("v{}", version)
tag_name(v) == "v" \o v

\* format!("Release {}", tag_name)
tag_message(name) == "Release " \o name

should_tag_all_push(m) == m \in {"CommitPushTag", "CommitTag", "CommitPush"}
\* matches!(mode, GitMode::CommitPushTag | GitMode::CommitTag)
should_tag(m) == m \in {"CommitPushTag", "CommitTag"}

\* matches!(mode, GitMode::CommitPush | GitMode::CommitPushTag)
should_push(m) == m \in {"CommitPush", "CommitPushTag"}

\* The `?` operator: an error returns from the function at once.
swallow(ok, next) == next
propagate(ok, next) == IF ok THEN next ELSE "done"

\* if statuses.is_empty() { return Ok(()) }
after_status_always_commit(isEmpty) == "commit"
after_status(isEmpty) == IF isEmpty THEN "done" ELSE "commit"

\* The step after a successful commit / tag / branch push.
after_commit(m) ==
    IF should_tag(m) THEN "tag" ELSE IF should_push(m) THEN "push_branch" ELSE "done"
after_tag(m) == IF should_push(m) THEN "push_branch" ELSE "done"
after_push_tag_always(m) == "push_tag"
after_push(m) == IF should_tag(m) THEN "push_tag" ELSE "done"

\* self.push_commits("origin", ...), self.push_tag("origin", ...)
remote_name == "origin"

\* head.shorthand() of the checked-out branch
current_branch == "master"

branch_refspec(branch) == "refs/heads/" \o branch \o ":refs/heads/" \o branch
tag_refspec(name) == "refs/tags/" \o name \o ":refs/tags/" \o name

tag_force_overwrite == TRUE
\* the `force` argument of Repository::tag
tag_force == FALSE

\* Outcomes of a push: find_remote(remote_name) fails, remote.push fails
\* (transport, authentication, rejected update), or the push goes through.
PushOutcomes == {"ok", "remote_not_found", "push_error"}

\* ------------------------------------------------------------------ Init
InitTree == [p \in RelPaths |-> IF p \in {CargoLock, Gone} THEN 0 ELSE 1]

\* The files the rewrite engine writes a version into.
Manifests == {CargoToml, PackageJson}

\* The working tree once the files in ps have been modified.
Modified(ps) == [p \in RelPaths |-> IF p \in ps THEN 2 ELSE InitTree[p]]

NoOld == [worktree |-> InitTree, index |-> InitTree, diskIndex |-> InitTree,
          commits |-> <<>>, headTree |-> InitTree, tags |-> EmptyFn]

NoArg == [tag |-> "", id |-> 0]

Snapshot == [worktree |-> worktree, index |-> index, diskIndex |-> diskIndex,
             commits |-> commits, headTree |-> headTree, tags |-> tags]

\* The repository holds one commit; the rewrite engine has rewritten the
\* manifests or found nothing to rewrite, and an unrelated file may have been
\* edited.
Init ==
    /\ worktree \in { Modified(ps) : ps \in {{}, Manifests, {Notes}, Manifests \cup {Notes}} }
    /\ index = InitTree
    /\ diskIndex = InitTree
    /\ commits = << [message |-> "Initial commit", parents |-> <<>>] >>
    /\ headTree = InitTree
    /\ tags = EmptyFn
    /\ ignored \in { {CargoLock}, {PackageJson} }
    /\ identity \in BOOLEAN
    /\ call = "none"
    /\ pc = "idle"
    /\ mode = "None"
    /\ version = "1.0.0"
    /\ files = <<>>
    /\ i = 1
    /\ arg = NoArg
    /\ commit_id = 0
    /\ result = "none"
    /\ steps = <<>>
    /\ errAt = "none"
    /\ statusSeen = "none"
    /\ netlog = <<>>
    /\ old = NoOld
    /\ repeat = FALSE
    /\ base = 0
    /\ NonGitIdle

\* --------------------------------------------------------------- actions
\* Result of a step that ends in pc value `to`.
ResultAt(ok, to) == IF ~ok THEN "err" ELSE IF to = "done" THEN "ok" ELSE "none"

\* execute_git_mode: entry, the None check and the call of stage_files.
Enter(m, v, f) ==
    /\ call' = "execute_git_mode"
    /\ mode' = m
    /\ version' = v
    /\ files' = f
    /\ old' = Snapshot
    /\ i' = 1
    /\ arg' = NoArg
    /\ commit_id' = 0
    /\ errAt' = "none"
    /\ statusSeen' = "none"
    /\ netlog' = <<>>
    /\ IF mode_is_none(m)
       THEN /\ pc' = "done"
            /\ result' = "ok"
            /\ steps' = <<>>
       ELSE /\ pc' = "stage"
            /\ result' = "none"
            /\ steps' = <<"stage">>
    /\ UNCHANGED << repoVars, envVars, nonGitVars >>

\* A call of execute_git_mode(mode, version, files).
Execute(m, v, f) ==
    /\ pc = "idle"
    /\ Len(commits) < MaxCommits
    /\ Enter(m, v, f)
    /\ repeat' = FALSE
    /\ base' = Len(commits)

\* The caller calls execute_git_mode again at once, with the same arguments.
ExecuteAgain ==
    /\ pc = "done"
    /\ call = "execute_git_mode"
    /\ ~repeat
    /\ Len(commits) < MaxCommits
    /\ Enter(mode, version, files)
    /\ repeat' = TRUE
    /\ base' = base

\* Every add_path writes the index file at once.
index_file_written_through(on_disk, in_memory) == in_memory

\* The index file after index.add_path: the path is added to the index in
\* memory, and the file is only written by index.write() behind the loop.
index_file_after_add(on_disk, in_memory) == on_disk

\* stage_files: one iteration of the loop over the file list.
StageFile ==
    /\ pc = "stage"
    /\ i <= Len(files)
    /\ LET file      == files[i]
           abs_path  == Canon(file)
           resolved  == Exists(abs_path)
           inside    == starts_with(abs_path, repo_root)
           relative  == strip_prefix(abs_path, repo_root)
           lock_path == with_file_name(abs_path, "Cargo.lock")
           lock_rel  == strip_prefix(lock_path, repo_root)
           Fail(at)  == /\ pc' = propagate(FALSE, "stage")
                        /\ result' = "err"
                        /\ errAt' = at
                        /\ i' = i
           Continue  == /\ pc' = "stage"
                        /\ i' = i + 1
                        /\ UNCHANGED << result, errAt >>
       IN
       IF ~resolved
       THEN Fail("canonicalize") /\ UNCHANGED << worktree, index >>
       ELSE IF ~inside
       THEN Fail("strip_prefix") /\ UNCHANGED << worktree, index >>
       ELSE IF is_path_ignored(relative)
       THEN Continue /\ UNCHANGED << worktree, index >>
       ELSE \E addOk \in BOOLEAN :
            IF ~addOk
            THEN Fail("add_path") /\ UNCHANGED << worktree, index >>
            ELSE IF ~is_cargo_toml(file_name(relative))
            THEN /\ index' = add_path(index, worktree, relative)
                 /\ Continue
                 /\ UNCHANGED worktree
            ELSE \E outcome \in CargoOutcomes, lockAddOk \in BOOLEAN :
                 LET wt1  == cargo_update(worktree, relative, lock_rel, outcome)
                     idx1 == add_path(index, worktree, relative)
                 IN  /\ worktree' = wt1
                     /\ IF wt1[lock_rel] # 0 /\ ~is_path_ignored(lock_rel)
                        THEN IF lockAddOk
                             THEN index' = add_path(idx1, wt1, lock_rel) /\ Continue
                             ELSE index' = idx1 /\ Fail("lock_add_path")
                        ELSE index' = idx1 /\ Continue
    /\ diskIndex' = index_file_after_add(diskIndex, index')
    /\ UNCHANGED << commits, headTree, tags, envVars, nonGitVars, call, mode,
                    version, files, arg, commit_id, steps, statusSeen, netlog,
                    old, repeat, base >>

\* stage_files: index.write() after the loop, and the return to
\* execute_git_mode.
StageWrite ==
    /\ pc = "stage"
    /\ i > Len(files)
    /\ diskIndex' = index
    /\ pc' = "status"
    /\ UNCHANGED << worktree, index, commits, headTree, tags, envVars, nonGitVars, call,
                    mode, version, files, i, arg, commit_id, result, steps,
                    errAt, statusSeen, netlog, old, repeat, base >>

\* The change check: self.repository.statuses(None)? and is_empty().
StatusCheck ==
    /\ pc = "status"
    /\ \E ioOk \in BOOLEAN :
         LET isEmpty == statuses = {}
             to      == propagate(ioOk, after_status(isEmpty))
         IN  /\ statusSeen' = IF ~ioOk THEN "error"
                              ELSE IF isEmpty THEN "empty" ELSE "pending"
             /\ pc' = to
             /\ result' = ResultAt(ioOk, to)
             /\ errAt' = IF ioOk THEN errAt ELSE "statuses"
    /\ steps' = Append(steps, "status")
    /\ UNCHANGED << repoVars, envVars, nonGitVars, call, mode, version, files, i, arg,
                    commit_id, netlog, old, repeat, base >>

\* self.repository.signature()
get_signature == identity

\* create_commit(message): the tree written from the index is committed on
\* HEAD with the configured signature, the current HEAD commit as parent.
create_commit(message) ==
    IF get_signature
    THEN [ok |-> TRUE,
          commits |-> Append(commits, [message |-> message,
                                       parents |-> <<Len(commits)>>]),
          tree |-> index]
    ELSE [ok |-> FALSE, commits |-> commits, tree |-> headTree]

\* create_tag(tag_name, commit_id): an annotated tag on the commit; fails
\* when the name is taken (force is false).
create_tag(name, id) ==
    IF /\ get_signature
       /\ id \in 1..Len(commits)
       /\ (name \notin DOMAIN tags \/ tag_force)
    THEN [ok |-> TRUE,
          tags |-> (name :> [target |-> id, message |-> tag_message(name)]) @@ tags]
    ELSE [ok |-> FALSE, tags |-> tags]

\* let commit_id = self.create_commit(&commit_message)?;
Commit ==
    /\ pc = "commit"
    /\ LET r  == create_commit(commit_message(version))
           to == propagate(r.ok, after_commit(mode))
       IN  /\ commits' = r.commits
           /\ headTree' = r.tree
           /\ commit_id' = IF r.ok THEN Len(r.commits) ELSE commit_id
           /\ pc' = to
           /\ result' = ResultAt(r.ok, to)
           /\ errAt' = IF r.ok THEN errAt ELSE "create_commit"
    /\ steps' = Append(steps, "commit")
    /\ UNCHANGED << worktree, index, diskIndex, tags, envVars, nonGitVars, call, mode,
                    version, files, i, arg, statusSeen, netlog, old, repeat, base >>

\* if should_tag { self.create_tag(&tag_name, commit_id)?; }
Tag ==
    /\ pc = "tag"
    /\ LET r  == create_tag(tag_name(version), commit_id)
           to == propagate(r.ok, after_tag(mode))
       IN  /\ tags' = r.tags
           /\ pc' = to
           /\ result' = ResultAt(r.ok, to)
           /\ errAt' = IF r.ok THEN errAt ELSE "create_tag"
    /\ steps' = Append(steps, "tag")
    /\ UNCHANGED << worktree, index, diskIndex, commits, headTree, envVars, nonGitVars,
                    call, mode, version, files, i, arg, commit_id, statusSeen,
                    netlog, old, repeat, base >>

\* let branch = self.current_branch()?; self.push_commits("origin", &branch)?;
PushBranch ==
    /\ pc = "push_branch"
    /\ \E outcome \in PushOutcomes :
         LET branch == current_branch
             ok     == outcome = "ok"
             to     == propagate(ok, after_push(mode))
         IN  /\ netlog' = Append(netlog, [fn |-> "push_commits", remote |-> remote_name,
                                          refspec |-> branch_refspec(branch),
                                          outcome |-> outcome])
             /\ pc' = to
             /\ result' = ResultAt(ok, to)
             /\ errAt' = IF ok THEN errAt ELSE "push_commits"
    /\ steps' = Append(steps, "push_branch")
    /\ UNCHANGED << repoVars, envVars, nonGitVars, call, mode, version, files, i, arg,
                    commit_id, statusSeen, old, repeat, base >>

\* if should_tag { self.push_tag("origin", &tag_name)?; }
PushTag ==
    /\ pc = "push_tag"
    /\ \E outcome \in PushOutcomes :
         LET name == tag_name(version)
             ok   == outcome = "ok"
             to   == propagate(ok, "done")
         IN  /\ netlog' = Append(netlog, [fn |-> "push_tag", remote |-> remote_name,
                                          refspec |-> tag_refspec(name),
                                          outcome |-> outcome])
             /\ pc' = to
             /\ result' = ResultAt(ok, to)
             /\ errAt' = IF ok THEN errAt ELSE "push_tag"
    /\ steps' = Append(steps, "push_tag")
    /\ UNCHANGED << repoVars, envVars, nonGitVars, call, mode, version, files, i, arg,
                    commit_id, statusSeen, old, repeat, base >>

\* The arguments of the direct create_tag calls: the name of the first
\* version; the HEAD commit or an object id that does not exist.
DirectTagNames == { "v1.0.0" }
DirectTagIds == { Len(commits), Len(commits) + 1 }

\* A direct call of the public create_tag(tag_name, commit_id).
CreateTagOp(name, id) ==
    /\ pc = "idle"
    /\ LET r == create_tag(name, id)
       IN  /\ tags' = r.tags
           /\ result' = ResultAt(r.ok, "done")
           /\ errAt' = IF r.ok THEN "none" ELSE "create_tag"
    /\ call' = "create_tag"
    /\ arg' = [tag |-> name, id |-> id]
    /\ old' = Snapshot
    /\ pc' = "done"
    /\ UNCHANGED << worktree, index, diskIndex, commits, headTree, envVars, nonGitVars,
                    mode, version, files, i, commit_id, steps, statusSeen,
                    netlog, repeat, base >>

\* The operation returns to its caller.
Return ==
    /\ pc = "done"
    /\ pc' = "idle"
    /\ call' = "none"
    /\ mode' = "None"
    /\ version' = "1.0.0"
    /\ files' = <<>>
    /\ i' = 1
    /\ arg' = NoArg
    /\ commit_id' = 0
    /\ result' = "none"
    /\ steps' = <<>>
    /\ errAt' = "none"
    /\ statusSeen' = "none"
    /\ netlog' = <<>>
    /\ old' = NoOld
    /\ repeat' = FALSE
    /\ base' = 0
    /\ UNCHANGED << repoVars, envVars, nonGitVars >>

Next ==
    \/ \E m \in GitModes, v \in Versions, f \in FileLists : Execute(m, v, f)
    \/ ExecuteAgain
    \/ StageFile
    \/ StageWrite
    \/ StatusCheck
    \/ Commit
    \/ Tag
    \/ PushBranch
    \/ PushTag
    \/ \E name \in DirectTagNames, id \in DirectTagIds : CreateTagOp(name, id)
    \/ Return

Spec == Init /\ [][Next]_vars

\* ======================================================================
\* Properties of the git release state machine
\* ======================================================================
Range(seq) == { seq[k] : k \in 1..Len(seq) }

InRun == call = "execute_git_mode"

\* The position of a step in the order stage, change check, commit, tag,
\* branch push, tag push.
StepRank(s) ==
    CASE s = "stage" -> 1
      [] s = "status" -> 2
      [] s = "commit" -> 3
      [] s = "tag" -> 4
      [] s = "push_branch" -> 5
      [] s = "push_tag" -> 6

\* The step in which a failing call is made.
StepOf(at) ==
    CASE at \in {"canonicalize", "strip_prefix", "add_path", "lock_add_path"} -> "stage"
      [] at = "statuses" -> "status"
      [] at = "create_commit" -> "commit"
      [] at = "create_tag" -> "tag"
      [] at = "push_commits" -> "push_branch"
      [] at = "push_tag" -> "push_tag"
      [] OTHER -> "none"

\* The commit a run with version string v adds on top of history h.
BumpCommit(h, v) == [message |-> "chore: bump version to " \o v, parents |-> <<Len(h)>>]

\* C1: execute_git_mode with mode None returns success at once and changes
\* nothing: no step is entered, nothing is staged (neither the in-memory index
\* nor the index file changes), no commit or tag is created, no push is
\* attempted and HEAD is the commit it was, whatever the file list and the
\* pending changes are.
C1_NoneModeChangesNothing ==
    (InRun /\ mode = "None") =>
        /\ pc = "done"
        /\ result = "ok"
        /\ steps = <<>>
        /\ netlog = <<>>
        /\ index = old.index
        /\ diskIndex = old.diskIndex
        /\ worktree = old.worktree
        /\ commits = old.commits
        /\ headTree = old.headTree
        /\ tags = old.tags

\* A None run has returned with a non-empty file list and pending changes.
C1_Witness ==
    /\ InRun /\ mode = "None" /\ pc = "done"
    /\ files # <<>>
    /\ statuses # {}

\* C2: in every run the steps occur only in the order stage, change check,
\* commit, tag, branch push, tag push; a tag is created only in the modes
\* CommitPushTag and CommitTag, a push is attempted only in the modes
\* CommitPush and CommitPushTag, and no run tags or pushes without having
\* created a commit in that run.
C2_StepOrder ==
    InRun =>
        /\ \A a, b \in 1..Len(steps) : a < b => StepRank(steps[a]) < StepRank(steps[b])
        /\ ("tag" \in Range(steps) \/ tags # old.tags)
              => mode \in {"CommitPushTag", "CommitTag"}
        /\ ({"push_branch", "push_tag"} \cap Range(steps) # {} \/ netlog # <<>>)
              => mode \in {"CommitPush", "CommitPushTag"}
        /\ ({"tag", "push_branch", "push_tag"} \cap Range(steps) # {}
               \/ tags # old.tags \/ netlog # <<>>)
              => /\ "commit" \in Range(steps)
                 /\ Len(commits) = Len(old.commits) + 1

\* A CommitPushTag run has gone through all six steps.
C2_Witness ==
    /\ InRun /\ pc = "done" /\ result = "ok" /\ mode = "CommitPushTag"
    /\ steps = <<"stage", "status", "commit", "tag", "push_branch", "push_tag">>

\* C3: in every mode other than None, when the change check after staging
\* finds no pending change, the run returns success without a commit, a tag
\* or a push, and HEAD is the prior commit.
C3_NoChangesNoCommit ==
    (InRun /\ statusSeen = "empty") =>
        /\ mode # "None"
        /\ pc = "done"
        /\ result = "ok"
        /\ steps = <<"stage", "status">>
        /\ commits = old.commits
        /\ headTree = old.headTree
        /\ tags = old.tags
        /\ netlog = <<>>

\* A tagging and pushing run has found nothing to commit.
C3_Witness ==
    /\ InRun /\ mode = "CommitPushTag" /\ statusSeen = "empty" /\ pc = "done"

\* C4: two calls of execute_git_mode in a row, with the same mode, version
\* and file list and nothing rewritten in between, create one commit between
\* them, not two.
C4_RepeatedCallOneCommit ==
    (InRun /\ repeat) => Len(commits) - base <= 1

\* C5: when a step fails, no later step runs and the error is returned,
\* while what the earlier steps did stays: a failure after the commit step
\* leaves the new commit at HEAD, a failed tag creation is followed by no
\* push, and a failed push leaves the commit and (when the mode tags) the tag.
C5_ErrorAborts ==
    (InRun /\ result = "err") =>
        /\ pc = "done"
        /\ steps # <<>>
        /\ steps[Len(steps)] = StepOf(errAt)
        /\ StepOf(errAt) \in {"stage", "status", "commit"} =>
              /\ commits = old.commits
              /\ tags = old.tags
              /\ netlog = <<>>
        /\ StepOf(errAt) \in {"status", "commit"} => diskIndex = index
        /\ StepOf(errAt) \in {"tag", "push_branch", "push_tag"} =>
              /\ commits = Append(old.commits, BumpCommit(old.commits, version))
              /\ commit_id = Len(commits)
              /\ headTree = index
        /\ errAt = "create_tag" =>
              /\ tags = old.tags
              /\ netlog = <<>>
        /\ (StepOf(errAt) \in {"push_branch", "push_tag"} /\ mode = "CommitPushTag") =>
              /\ ("v" \o version) \in DOMAIN tags
              /\ tags[("v" \o version)].target = commit_id
        /\ errAt = "push_commits" => Len(netlog) = 1
        /\ errAt = "push_tag" => (Len(netlog) = 2 /\ netlog[1].outcome = "ok")

\* The branch push of a CommitPushTag run has failed: the commit and the tag
\* of the run are in place and the tag push was not attempted.
C5_Witness ==
    /\ InRun /\ result = "err" /\ errAt = "push_commits" /\ mode = "CommitPushTag"
    /\ Len(commits) = Len(old.commits) + 1
    /\ ("v" \o version) \in DOMAIN tags
    /\ ("v" \o version) \notin DOMAIN old.tags

\* C6: a tag, once created, keeps its name and its target for ever, and a
\* creation of a tag whose name exists fails, in a run's tag step and in a
\* direct call of create_tag, whatever commit it targets.
C6_TagsAreImmutable ==
    [][ /\ \A n \in DOMAIN tags : n \in DOMAIN tags' /\ tags'[n] = tags[n]
        /\ (pc = "tag" /\ ("v" \o version) \in DOMAIN tags) => result' = "err"
        /\ (pc = "idle" /\ call' = "create_tag" /\ arg'.tag \in DOMAIN tags)
              => result' = "err"
      ]_vars

\* A direct create_tag of an existing name, aimed at another commit than the
\* tag's, has failed.
C6_Witness ==
    /\ call = "create_tag" /\ pc = "done" /\ result = "err"
    /\ arg.tag \in DOMAIN old.tags
    /\ arg.id \in 1..Len(commits)
    /\ old.tags[arg.tag].target # arg.id
    /\ tags = old.tags

\* C7 as stated: a run that reaches the commit step creates exactly one
\* commit, with the message "chore: bump version to s", and HEAD moves to it.
C7_CommitStepCreatesCommit ==
    (InRun /\ "commit" \in Range(steps)) =>
        /\ commits = Append(old.commits, BumpCommit(old.commits, version))
        /\ commit_id = Len(commits)

\* C7 (amended): a run whose commit step succeeds creates exactly one commit,
\* with the message "chore: bump version to s" and the prior HEAD as parent,
\* and HEAD moves to it; a tag created by the run is named "v" s, has the
\* message "Release v" s and points at that commit, and a run whose tag step
\* succeeds has created it. When create_commit fails nothing is committed.
C7_CommitAndTagOfRun ==
    /\ (InRun /\ "commit" \in Range(steps) /\ errAt # "create_commit") =>
          /\ commits = Append(old.commits, BumpCommit(old.commits, version))
          /\ commit_id = Len(commits)
          /\ \A n \in DOMAIN tags \ DOMAIN old.tags :
                /\ n = "v" \o version
                /\ tags[n] = [target |-> commit_id, message |-> "Release v" \o version]
          /\ ("tag" \in Range(steps) /\ errAt # "create_tag")
                => ("v" \o version) \in DOMAIN tags \ DOMAIN old.tags
    /\ (InRun /\ errAt = "create_commit") =>
          /\ commits = old.commits
          /\ headTree = old.headTree

\* A CommitTag run has committed and tagged.
C7_Witness ==
    /\ InRun /\ pc = "done" /\ result = "ok" /\ mode = "CommitTag"
    /\ Len(commits) = Len(old.commits) + 1
    /\ ("v" \o version) \in DOMAIN tags \ DOMAIN old.tags

\* C8: the first push of a run is the push of the current branch to origin;
\* the tag ref is pushed only in mode CommitPushTag, second, after the branch
\* push succeeded; mode CommitPush pushes no tag ref; the modes Commit and
\* CommitTag (and None) make no push call.
C8_PushOrder ==
    InRun =>
        /\ mode \in {"None", "Commit", "CommitTag"} => netlog = <<>>
        /\ Len(netlog) <= 2
        /\ Len(netlog) >= 1 =>
              netlog[1] \in { [fn |-> "push_commits", remote |-> "origin",
                               refspec |-> "refs/heads/master:refs/heads/master",
                               outcome |-> o] : o \in PushOutcomes }
        /\ Len(netlog) = 2 =>
              /\ mode = "CommitPushTag"
              /\ netlog[1].outcome = "ok"
              /\ netlog[2].fn = "push_tag"
              /\ netlog[2].remote = "origin"
              /\ netlog[2].refspec = "refs/tags/v" \o version \o ":refs/tags/v" \o version
        /\ mode = "CommitPush" => \A k \in 1..Len(netlog) : netlog[k].fn # "push_tag"

\* A CommitPushTag run has pushed the branch and then the tag.
C8_Witness ==
    /\ InRun /\ pc = "done" /\ result = "ok" /\ mode = "CommitPushTag"
    /\ Len(netlog) = 2

\* The listed paths that lie inside the repository, relative to its root.
ListedRel ==
    { strip_prefix(Canon(files[k]), repo_root) :
        k \in { j \in 1..Len(files) : starts_with(Canon(files[j]), repo_root) } }

\* The Cargo.lock files next to the listed Cargo.toml files.
ListedLocks ==
    { with_file_name(r, "Cargo.lock") :
        r \in { q \in ListedRel : Lower(file_name(q)) = "cargo.toml" } }

\* C9: staging changes the entries of the repository's index only for listed
\* paths and for the Cargo.lock next to a listed Cargo.toml; the entry of a
\* path matched by the ignore rules is never changed, and a listed existing
\* path that is ignored is passed over without an error; every other pending
\* change stays out of the index. The index file is either left as it was
\* or written from that index.
C9_StagingScope ==
    InRun =>
        /\ \A p \in RelPaths :
              (p \notin ListedRel \cup ListedLocks \/ p \in ignored) =>
                  index[p] = old.index[p]
        /\ diskIndex \in {old.diskIndex, index}
        /\ (result = "err" /\ StepOf(errAt) = "stage") =>
              ~ /\ Exists(Canon(files[i]))
                /\ starts_with(Canon(files[i]), repo_root)
                /\ strip_prefix(Canon(files[i]), repo_root) \in ignored

\* stage_files has returned: a listed path was staged, the Cargo.lock next to
\* the listed Cargo.toml was staged, a listed ignored path with a pending
\* change was passed over, and an unlisted pending change stays unstaged.
C9_Witness ==
    /\ InRun /\ pc = "status"
    /\ index[CargoToml] # old.index[CargoToml]
    /\ index[CargoLock] # old.index[CargoLock]
    /\ PackageJson \in ListedRel \cap ignored
    /\ worktree[PackageJson] # index[PackageJson]
    /\ Notes \notin ListedRel
    /\ worktree[Notes] # index[Notes]
    /\ diskIndex = index

\* C10: no failure of the lock refresh that follows the staging of a
\* Cargo.toml aborts staging: stage_files does not return the error of the
\* Cargo.lock that could not be staged.
C10_LockFailureDoesNotAbort ==
    InRun => ~(result = "err" /\ errAt = "lock_add_path")

\* C36: stage_files is all-or-nothing for the index file: when resolving
\* or adding a listed path fails (the path is missing or lies outside the
\* repository root), it returns the error and the index file is the one
\* from before the call, even though earlier paths of the list had been
\* processed.
C36_FailedStagingKeepsIndexFile ==
    (InRun /\ result = "err" /\ StepOf(errAt) = "stage") =>
        diskIndex = old.diskIndex

\* Staging failed at a later path, after an earlier one had been added to
\* the index in memory.
C36_Witness ==
    /\ InRun /\ result = "err"
    /\ errAt \in { "canonicalize", "strip_prefix" }
    /\ i > 1
    /\ index # old.index
    /\ diskIndex = old.diskIndex

\* ======================================================================
\* Part 2: increment_semver (src/parsers/mod.rs)
\*
\* A u64 is held as its decimal digits, most significant first and without
\* leading zeros, so that values near 2^64 can be written down.  A prerelease
\* and a build string are sequences of characters.

\* Number of increments applied one after the other.
MaxIncs == 2

DigitChars == << "0", "1", "2", "3", "4", "5", "6", "7", "8", "9" >>
IsDigit(c) == \E d \in 1..10 : DigitChars[d] = c
DigitOf(c) == (CHOOSE d \in 1..10 : DigitChars[d] = c) - 1
CharOf(d)  == DigitChars[d + 1]

\* u64::MAX = 18446744073709551615, and the number before it.
U64_MAX      == << 1,8,4,4,6,7,4,4,0,7,3,7,0,9,5,5,1,6,1,5 >>
U64_MAX_PRED == << 1,8,4,4,6,7,4,4,0,7,3,7,0,9,5,5,1,6,1,4 >>

\* n + 1 on the naturals.
RECURSIVE NatSucc(_)
NatSucc(n) ==
    IF n = <<>> THEN << 1 >>
    ELSE IF n[Len(n)] < 9 THEN [n EXCEPT ![Len(n)] = @ + 1]
    ELSE Append(NatSucc(SubSeq(n, 1, Len(n) - 1)), 0)

\* a < b on the naturals.
NatLess(a, b) ==
    \/ Len(a) < Len(b)
    \/ /\ Len(a) = Len(b)
       /\ \E k \in 1..Len(a) :
            /\ a[k] < b[k]
            /\ \A j \in 1..(k - 1) : a[j] = b[j]

RECURSIVE StripZeros(_)
StripZeros(ds) ==
    IF Len(ds) > 1 /\ ds[1] = 0 THEN StripZeros(Tail(ds)) ELSE ds

\* `x + 1` / `x += 1` on a u64: the overflow traps when the build checks
\* overflow and wraps to 0 otherwise.
add_one(n, checks) ==
    IF n = U64_MAX
    THEN IF checks THEN [panic |-> TRUE, n |-> << 0 >>]
                   ELSE [panic |-> FALSE, n |-> << 0 >>]
    ELSE [panic |-> FALSE, n |-> NatSucc(n)]

\* str::parse::<u64>: an optional '+', then one or more digits, within range.
parse_u64(s) ==
    LET body   == IF s # <<>> /\ s[1] = "+" THEN Tail(s) ELSE s
        digits == [k \in 1..Len(body) |-> DigitOf(body[k])]
    IN  IF body = <<>> \/ \E k \in 1..Len(body) : ~IsDigit(body[k])
        THEN [ok |-> FALSE, n |-> << 0 >>]
        ELSE IF NatLess(U64_MAX, StripZeros(digits))
        THEN [ok |-> FALSE, n |-> << 0 >>]
        ELSE [ok |-> TRUE, n |-> StripZeros(digits)]

\* format!("{}", n) of a u64.
to_string(n) == [k \in 1..Len(n) |-> CharOf(n[k])]

\* str::split(sep).collect()
RECURSIVE split(_, _)
split(s, sep) ==
    IF \A k \in 1..Len(s) : s[k] # sep
    THEN << s >>
    ELSE LET at == CHOOSE n \in 1..Len(s) :
                     s[n] = sep /\ \A j \in 1..(n - 1) : s[j] # sep
         IN  << SubSeq(s, 1, at - 1) >> \o split(SubSeq(s, at + 1, Len(s)), sep)

\* [&str]::join(sep)
RECURSIVE join(_, _)
join(parts, sep) ==
    IF parts = <<>> THEN <<>>
    ELSE IF Len(parts) = 1 THEN parts[1]
    ELSE parts[1] \o << sep >> \o join(Tail(parts), sep)

\* The characters of the identifiers used below.
IdentChars == { DigitChars[d] : d \in 1..10 } \cup { "a", "b", "c", "r", "-" }

\* semver::Prerelease::new accepts the empty string and dot-separated
\* non-empty identifiers of [0-9A-Za-z-], a numeric one without leading zero.
Prerelease_new(s) ==
    \/ s = <<>>
    \/ \A k \in 1..Len(split(s, ".")) :
         LET id == split(s, ".")[k]
         IN  /\ id # <<>>
             /\ \A j \in 1..Len(id) : id[j] \in IdentChars
             /\ (\A j \in 1..Len(id) : IsDigit(id[j])) =>
                    (Len(id) = 1 \/ id[1] # "0")

\* next.build = semver::BuildMetadata::EMPTY
build_kept(build) == build

cleared_build(build) == <<>>

Ok(next) == [kind |-> "Ok", next |-> next]
ErrOutcome == [kind |-> "Err", next |-> NoVersion]
PanicOutcome == [kind |-> "panic", next |-> NoVersion]

\* increment_semver(version), on a build with or without overflow checks.
increment_semver(ver, checks) ==
    LET next == [ver EXCEPT !.build = cleared_build(ver.build)]
        bump_patch ==
            LET r == add_one(ver.patch, checks)
            IN  IF r.panic THEN PanicOutcome
                ELSE Ok([next EXCEPT !.patch = r.n])
    IN  IF ver.pre = <<>>
        THEN bump_patch
        ELSE LET parts  == split(ver.pre, ".")
                 last   == parts[Len(parts)]
                 parsed == parse_u64(last)
                 prefix == SubSeq(parts, 1, Len(parts) - 1)
                 r      == add_one(parsed.n, checks)
                 new_pre ==
                     IF prefix = <<>>
                     THEN to_string(r.n)
                     ELSE join(prefix, ".") \o << "." >> \o to_string(r.n)
             IN  IF parsed.ok
                 THEN IF r.panic THEN PanicOutcome
                      ELSE IF Prerelease_new(new_pre)
                           THEN Ok([next EXCEPT !.pre = new_pre])
                           ELSE ErrOutcome
                 ELSE bump_patch

\* The well-formed versions the function is applied to.
PatchInputs == { << 0 >>, << 9 >>, U64_MAX_PRED, U64_MAX }
PreInputs ==
    { <<>>,
      << "a" >>,
      << "a", ".", "0" >>,
      << "5" >>,
      << "r", "c", ".", "9" >>,
      << "a", ".", "b" >>,
      << "0", ".", "a" >>,
      << "a", "-", "1" >>,
      << "b", "." >> \o to_string(U64_MAX_PRED),
      << "b", "." >> \o to_string(U64_MAX),
      << "b", "." >> \o to_string(NatSucc(U64_MAX)) }
BuildInputs == { <<>>, << "b", "7" >> }
SemverInputs ==
    [major : {0, 1}, minor : {2}, patch : PatchInputs, pre : PreInputs,
     build : BuildInputs]

\* Part 1 at rest.
GitIdle ==
    /\ worktree = InitTree
    /\ index = InitTree
    /\ diskIndex = InitTree
    /\ commits = << [message |-> "Initial commit", parents |-> <<>>] >>
    /\ headTree = InitTree
    /\ tags = EmptyFn
    /\ ignored = {CargoLock}
    /\ identity = TRUE
    /\ call = "none"
    /\ pc = "idle"
    /\ mode = "None"
    /\ version = "1.0.0"
    /\ files = <<>>
    /\ i = 1
    /\ arg = NoArg
    /\ commit_id = 0
    /\ result = "none"
    /\ steps = <<>>
    /\ errAt = "none"
    /\ statusSeen = "none"
    /\ netlog = <<>>
    /\ old = NoOld
    /\ repeat = FALSE
    /\ base = 0

InitSemver ==
    /\ GitIdle
    /\ semver_in \in SemverInputs
    /\ semver_out = NoOutcome
    /\ overflow_checks \in BOOLEAN
    /\ incs = 0
    /\ CredIdle
    /\ RwIdle
    /\ EngIdle
    /\ CliIdle

\* A call increment_semver(&version).
IncrementSemver ==
    /\ semver_out.kind = "none"
    /\ semver_out' = increment_semver(semver_in, overflow_checks)
    /\ incs' = 1
    /\ UNCHANGED << semver_in, overflow_checks, gitVars, credVars, rwVars, engVars, cliVars >>

\* The returned version is incremented in turn.
IncrementNext ==
    /\ semver_out.kind = "Ok"
    /\ incs < MaxIncs
    /\ semver_in' = semver_out.next
    /\ semver_out' = increment_semver(semver_out.next, overflow_checks)
    /\ incs' = incs + 1
    /\ UNCHANGED << overflow_checks, gitVars, credVars, rwVars, engVars, cliVars >>

NextSemver ==
    \/ IncrementSemver
    \/ IncrementNext

SpecSemver == InitSemver /\ [][NextSemver]_vars

\* ----------------------------------------------------------------------
\* Properties of increment_semver

Returned == semver_out.kind # "none"

\* The identifiers of a prerelease, and whether one is numeric in the
\* sense of semver (digits only).
Identifiers(pre) == split(pre, ".")
LastIdentifier(pre) == Identifiers(pre)[Len(Identifiers(pre))]
IsNumeric(id) == id # <<>> /\ \A k \in 1..Len(id) : IsDigit(id[k])
ValueOf(id) == StripZeros([k \in 1..Len(id) |-> DigitOf(id[k])])

\* C13: for a version with empty prerelease, the increment keeps major and
\* minor, adds one to patch, and has empty prerelease and empty build.
C13_EmptyPrereleaseBumpsPatch ==
    (Returned /\ semver_in.pre = <<>>) =>
        /\ semver_out.kind = "Ok"
        /\ semver_out.next.major = semver_in.major
        /\ semver_out.next.minor = semver_in.minor
        /\ semver_out.next.patch = NatSucc(semver_in.patch)
        /\ semver_out.next.pre = <<>>
        /\ semver_out.next.build = <<>>

\* C14: for a version whose prerelease ends in a numeric identifier n, the
\* increment replaces that identifier by n + 1 and keeps major, minor, patch
\* and the other prerelease identifiers.
C14_NumericSuffixBumped ==
    (Returned /\ semver_in.pre # <<>> /\ IsNumeric(LastIdentifier(semver_in.pre))) =>
        /\ semver_out.kind = "Ok"
        /\ semver_out.next.major = semver_in.major
        /\ semver_out.next.minor = semver_in.minor
        /\ semver_out.next.patch = semver_in.patch
        /\ LET old_ids == Identifiers(semver_in.pre)
               new_ids == Identifiers(semver_out.next.pre)
           IN  /\ Len(new_ids) = Len(old_ids)
               /\ \A k \in 1..(Len(old_ids) - 1) : new_ids[k] = old_ids[k]
               /\ new_ids[Len(new_ids)] =
                      to_string(NatSucc(ValueOf(old_ids[Len(old_ids)])))

\* C15: for a version with a non-empty prerelease whose last identifier is
\* not numeric, the increment adds one to patch and keeps the prerelease,
\* major and minor.
C15_LabelKeptPatchBumped ==
    (Returned /\ semver_in.pre # <<>> /\ ~IsNumeric(LastIdentifier(semver_in.pre))) =>
        /\ semver_out.kind = "Ok"
        /\ semver_out.next.patch = NatSucc(semver_in.patch)
        /\ semver_out.next.pre = semver_in.pre
        /\ semver_out.next.major = semver_in.major
        /\ semver_out.next.minor = semver_in.minor

\* C16: every version the increment returns has empty build metadata.
C16_BuildDiscarded ==
    semver_out.kind = "Ok" => semver_out.next.build = <<>>

\* A version with build metadata has been incremented in the numeric-suffix
\* branch, and one in each patch-bumping branch can follow or precede it.
C16_Witness ==
    /\ semver_out.kind = "Ok"
    /\ semver_in.build # <<>>
    /\ semver_in.pre = << "a", ".", "0" >>
    /\ semver_out.next.pre = << "a", ".", "1" >>

\* C17: the increment returns a version, never an error, for every
\* well-formed version, whatever the patch and the numeric last identifier
\* within the u64 range.
C17_NeverFails ==
    Returned => semver_out.kind = "Ok"

\* ----------------------------------------------------------------------
\* The order of semantic versions (semver precedence).

\* The ASCII code of an identifier character.
CharCode(c) ==
    CASE c = "-" -> 45
      [] IsDigit(c) -> 48 + DigitOf(c)
      [] c = "a" -> 97
      [] c = "b" -> 98
      [] c = "c" -> 99
      [] c = "r" -> 114

\* x before y in the lexical ASCII order.
TextLess(x, y) ==
    \E k \in 1..(Len(x) + 1) :
        /\ k <= Len(y) + 1
        /\ \A j \in 1..(k - 1) : x[j] = y[j]
        /\ \/ k = Len(x) + 1 /\ k <= Len(y)
           \/ k <= Len(x) /\ k <= Len(y) /\ CharCode(x[k]) < CharCode(y[k])

\* Identifier x has lower precedence than y: numeric ones compare as
\* numbers and are lower than the others, which compare as text.
IdentifierLess(x, y) ==
    IF IsNumeric(x) /\ IsNumeric(y) THEN NatLess(ValueOf(x), ValueOf(y))
    ELSE IF IsNumeric(x) THEN TRUE
    ELSE IF IsNumeric(y) THEN FALSE
    ELSE TextLess(x, y)

\* Prerelease p has lower precedence than q: a version with a prerelease
\* is lower than the one without; otherwise the first differing identifier
\* decides, and a prefix is lower.
PrereleaseLess(p, q) ==
    IF p = << >> THEN FALSE
    ELSE IF q = << >> THEN TRUE
    ELSE LET ps == Identifiers(p)
             qs == Identifiers(q)
         IN  \E k \in 1..(Len(ps) + 1) :
                 /\ k <= Len(qs) + 1
                 /\ \A j \in 1..(k - 1) : ps[j] = qs[j]
                 /\ \/ k = Len(ps) + 1 /\ k <= Len(qs)
                    \/ k <= Len(ps) /\ k <= Len(qs)
                         /\ IdentifierLess(ps[k], qs[k])

\* Version a is lower than version b: major, minor, patch, prerelease.
VersionLess(a, b) ==
    \/ a.major < b.major
    \/ a.major = b.major /\ a.minor < b.minor
    \/ a.major = b.major /\ a.minor = b.minor /\ NatLess(a.patch, b.patch)
    \/ a.major = b.major /\ a.minor = b.minor /\ a.patch = b.patch
         /\ PrereleaseLess(a.pre, b.pre)

\* C34: increment(v) is strictly greater than v in the order of semantic
\* versions for every version v, in all three branches (empty prerelease,
\* numeric last identifier, other last identifier), so repeated increments
\* never return to an earlier version.
C34_IncrementIsGreater ==
    Returned =>
        /\ semver_out.kind = "Ok"
        /\ VersionLess(semver_in, semver_out.next)

\* ======================================================================
\* Part 3: the credentials callback (GitTracker::create_auth_callbacks)

\* Invocations of one callback instance that the transport makes.
MaxAttempts == 7

\* Callback instances built in a row: the pushes of one CommitPushTag run.
MaxInstances == 2

\* `if attempt > 5`
CredentialAttemptCap == 5

CredentialTypes == { "SSH_KEY", "USER_PASS_PLAINTEXT", "DEFAULT" }

\* The key names of the loop at git.rs:60, in its order.
key_names == << "id_ed25519", "id_rsa", "id_ecdsa" >>

\* The strategies in the order of the code.
Strategies == << "ssh_agent" >> \o key_names \o << "credential_helper", "default" >>

IsKey(s) == \E k \in 1..Len(key_names) : key_names[k] = s

\* The operations that build a callback instance.
NetworkOps == { "push_commits", "push_tag", "fetch_tags" }

\* The private-key files found under ~/.ssh.
KeySets == { {}, {"id_rsa"}, {"id_ed25519", "id_rsa", "id_ecdsa"} }

\* The calls that return Ok in one invocation: a strategy's call, or
\* git2::Config::open_default().
SuccessSets ==
    { {}, {"default"} }
    \cup { {"Config::open_default", Strategies[k]} : k \in 1..Len(Strategies) }
    \cup { {"Config::open_default"}, {"Config::open_default", "id_ecdsa", "default"} }

Usernames == { "", "alice" }

\* username_from_url.unwrap_or("git"); "" stands for None.
username_or_git(username_from_url) ==
    IF username_from_url = "" THEN "git" ELSE username_from_url

\* The conditions under which the code reaches a strategy's call.
applicable(s, in) ==
    IF s = "ssh_agent" THEN "SSH_KEY" \in in.allowed_types
    ELSE IF IsKey(s) THEN "SSH_KEY" \in in.allowed_types /\ in.home /\ s \in in.keys
    ELSE IF s = "credential_helper" THEN "USER_PASS_PLAINTEXT" \in in.allowed_types
    ELSE "DEFAULT" \in in.allowed_types

OkCred(s, username) ==
    [kind |-> "Ok", strategy |-> s, username |-> username, error |-> ""]
ErrCred(msg) ==
    [kind |-> "Err", strategy |-> "none", username |-> "", error |-> msg]

\* `if attempt > 5`
over_cap_off_by_one(attempt) == attempt > CredentialAttemptCap + 1

over_cap(attempt) == attempt > CredentialAttemptCap

\* The body of the callback from the strategy at position k on; `succeed`
\* are the calls that return Ok.
RECURSIVE try_from(_, _, _, _)
try_from(k, in, succeed, tr) ==
    IF k > Len(Strategies)
    THEN [tried |-> tr, out |-> ErrCred("no suitable credentials found")]
    ELSE LET s == Strategies[k]
             username == username_or_git(in.username_from_url)
             failed == Append(tr, [strategy |-> s, ok |-> FALSE])
         IN  IF ~applicable(s, in)
             THEN try_from(k + 1, in, succeed, tr)
             ELSE IF s = "credential_helper" /\ "Config::open_default" \notin succeed
             THEN [tried |-> failed, out |-> ErrCred("Config::open_default")]
             ELSE IF s \in succeed
             THEN [tried |-> Append(tr, [strategy |-> s, ok |-> TRUE]),
                   out |-> OkCred(s, IF s = "ssh_agent" \/ IsKey(s)
                                     THEN username ELSE "")]
             ELSE IF s = "default"
             THEN [tried |-> failed, out |-> ErrCred("Cred::default")]
             ELSE try_from(k + 1, in, succeed, failed)

\* One invocation of the closure, the counter already incremented.
credentials(attempt, in, succeed) ==
    IF over_cap(attempt)
    THEN [tried |-> <<>>,
          out |-> ErrCred("authentication failed after multiple attempts")]
    ELSE try_from(1, in, succeed, <<>>)

InitCred ==
    /\ GitIdle
    /\ SemverIdle
    /\ CredIdle
    /\ RwIdle
    /\ EngIdle
    /\ CliIdle

\* The instances count on the counter of the instance before.
shared_counter(previous) == previous

\* let attempts = Cell::new(0u32): the counter of a new instance, whatever
\* the counter of the instance before it holds.
new_counter(previous) == 0

\* create_auth_callbacks, called by push_commits, push_tag or fetch_tags:
\* a new closure with its own counter.
CreateAuthCallbacks(op) ==
    /\ cb_pc = "idle"
    /\ Len(finished) + 1 < MaxInstances \/ cb_op = "none"
    /\ cb_op' = op
    /\ attempts' = new_counter(attempts)
    /\ finished' = IF cb_op = "none" THEN finished
                                     ELSE Append(finished, over_cap(attempts))
    /\ cb_in' = NoCbIn
    /\ tried' = <<>>
    /\ cred_out' = NoCred
    /\ UNCHANGED << cb_pc, gitVars, semverVars, rwVars, engVars, cliVars >>

\* The transport invokes the credentials callback of the instance.
Invoke(allowed_types, username_from_url, home, keys) ==
    /\ cb_op # "none"
    /\ cb_pc = "idle"
    /\ attempts < MaxAttempts
    /\ cb_pc' = "called"
    /\ cb_in' = [allowed_types |-> allowed_types,
                 username_from_url |-> username_from_url,
                 home |-> home, keys |-> keys]
    /\ tried' = <<>>
    /\ cred_out' = NoCred
    /\ UNCHANGED << cb_op, attempts, finished, gitVars, semverVars, rwVars,
                    engVars, cliVars >>

\* The closure runs: it counts the attempt and returns a credential or an
\* error.
Credentials(succeed) ==
    /\ cb_pc = "called"
    /\ LET attempt == attempts + 1
           r == credentials(attempt, cb_in, succeed)
       IN  /\ attempts' = attempt
           /\ tried' = r.tried
           /\ cred_out' = r.out
    /\ cb_pc' = "idle"
    /\ UNCHANGED << cb_op, cb_in, finished, gitVars, semverVars, rwVars,
                    engVars, cliVars >>

NextCred ==
    \/ \E op \in NetworkOps : CreateAuthCallbacks(op)
    \/ \E allowed_types \in SUBSET CredentialTypes, username_from_url \in Usernames,
          home \in BOOLEAN, keys \in KeySets :
            Invoke(allowed_types, username_from_url, home, keys)
    \/ \E succeed \in SuccessSets : Credentials(succeed)

SpecCred == InitCred /\ [][NextCred]_vars

\* ----------------------------------------------------------------------
\* Properties of the credentials callback

Invoked == cred_out.kind # "none"

StrategyRank(s) == CHOOSE k \in 1..Len(Strategies) : Strategies[k] = s

\* C11: an invocation after the fifth of a callback instance returns the
\* authentication-failed error without trying a strategy, so only the first
\* five invocations of an instance can return a credential.
C11_CapAtFiveAttempts ==
    Invoked =>
        /\ attempts > 5 =>
              /\ cred_out.kind = "Err"
              /\ cred_out.error = "authentication failed after multiple attempts"
              /\ tried = <<>>
        /\ cred_out.kind = "Ok" => attempts <= 5

\* The sixth invocation of an instance has returned, with a request that the
\* fifth invocation would have answered with a credential.
C11_Witness ==
    /\ attempts = 6
    /\ cred_out.kind = "Err"
    /\ "SSH_KEY" \in cb_in.allowed_types

\* The strategies after position r that the request and the machine allow.
LaterApplicable(r) ==
    { k \in (r + 1)..Len(Strategies) : applicable(Strategies[k], cb_in) }
FirstOf(ks) == CHOOSE k \in ks : \A j \in ks : k <= j

\* C12: an invocation within the cap tries the strategies in the order SSH
\* agent, id_ed25519, id_rsa, id_ecdsa, credential helper, default; it
\* returns the credential of the first strategy that yields one and tries
\* none after it; a strategy that fails is followed by the next one.
C12_StrategyOrder ==
    (Invoked /\ attempts <= 5) =>
        /\ \A a, b \in 1..Len(tried) :
              a < b => StrategyRank(tried[a].strategy) < StrategyRank(tried[b].strategy)
        /\ \A a \in 1..Len(tried) :
              tried[a].ok => /\ a = Len(tried)
                             /\ cred_out.kind = "Ok"
                             /\ cred_out.strategy = tried[a].strategy
        /\ cred_out.kind = "Ok" => (tried # <<>> /\ tried[Len(tried)].ok)
        /\ LaterApplicable(0) # {} =>
              /\ tried # <<>>
              /\ StrategyRank(tried[1].strategy) = FirstOf(LaterApplicable(0))
        /\ \A a \in 1..Len(tried) :
              LET later == LaterApplicable(StrategyRank(tried[a].strategy))
              IN  (~tried[a].ok /\ later # {}) =>
                      /\ a < Len(tried)
                      /\ StrategyRank(tried[a + 1].strategy) = FirstOf(later)

\* A step that builds a callback instance.
InstanceBuilt ==
    \/ finished' # finished
    \/ cb_op = "none" /\ cb_op' # "none"

\* C38: the attempt counter belongs to one callback instance and is never
\* reset while the instance is in use; every network operation builds a
\* new instance whose counter starts at zero, so that an instance built
\* after one that used up its attempts (the tag push after the branch push
\* of CommitPushTag) answers its first five invocations again.
C38_CounterPerInstance ==
    /\ [][IF InstanceBuilt THEN attempts' = 0
                           ELSE attempts' \in { attempts, attempts + 1 }]_vars
    /\ [](Invoked =>
             (cred_out.error = "authentication failed after multiple attempts"
                  <=> attempts > CredentialAttemptCap))

\* The instance of the tag push returns a credential at its fifth
\* invocation, after the instance before it had been invoked more than five
\* times.
C38_Witness ==
    /\ cb_op = "push_tag"
    /\ finished # <<>>
    /\ finished[1]
    /\ attempts = CredentialAttemptCap
    /\ cred_out.kind = "Ok"

\* ======================================================================
\* Part 4: file discovery and rewriting (Parser, src/parsers/mod.rs), for
\* the Cargo.toml format (TomlParser).

\* The directory handed to the Parser operations.
project == << "proj" >>

InProject(rel) == project \o rel

RootManifest   == InProject(<< "Cargo.toml" >>)
AManifest      == InProject(<< "a", "Cargo.toml" >>)
ABManifest     == InProject(<< "a-b", "Cargo.toml" >>)
VendorManifest == InProject(<< "vendor", "Cargo.toml" >>)
HiddenManifest == InProject(<< ".config", "Cargo.toml" >>)
DeepManifest   == InProject(<< "a", "c", "Cargo.toml" >>)
Readme         == InProject(<< "a", "README.md" >>)

\* The files of the project tree.
TreeFiles ==
    { RootManifest, AManifest, ABManifest, VendorManifest, HiddenManifest,
      DeepManifest, Readme }

\* The bytes of a file or directory name (ASCII).
Bytes(name) ==
    CASE name = "proj"       -> << 112, 114, 111, 106 >>
      [] name = "Cargo.toml" -> << 67, 97, 114, 103, 111, 46, 116, 111, 109, 108 >>
      [] name = "README.md"  -> << 82, 69, 65, 68, 77, 69, 46, 109, 100 >>
      [] name = "a"          -> << 97 >>
      [] name = "a-b"        -> << 97, 45, 98 >>
      [] name = "c"          -> << 99 >>
      [] name = "vendor"     -> << 118, 101, 110, 100, 111, 114 >>
      [] name = ".config"    -> << 46, 99, 111, 110, 102, 105, 103 >>

\* A name that starts with '.'.
hidden(name) == Bytes(name)[1] = 46

\* The directories between the walk root and the entry.
dirs_of(path) == SubSeq(path, Len(project) + 1, Len(path) - 1)

\* The version text of a file: "1.0.0" stands for a content with the
\* version line `version = "1.0.0"`, "" for a manifest without one.
InitialFs ==
    [f \in TreeFiles |->
        IF f = Readme THEN "text" ELSE IF f = AManifest THEN "" ELSE "1.0.0"]

\* update_version's argument `version`.
TargetVersion == "2.0.0"

VersionTexts == { "1.0.0", TargetVersion }

\* version_regex.replace(contents, version_line_format(version)): the first
\* version match is replaced, a content without a match is returned as is.
replace_version(contents, new_text) ==
    IF contents \in VersionTexts THEN new_text ELSE contents

\* The directory names listed in the ignore files of the project root, and
\* whether the root holds a .git directory.
IgnoreConfigs ==
    [uvignore  : { {}, {"vendor"} },
     gitignore : { {}, {"a-b"}, {"vendor"} },
     dotignore : { {}, {"vendor"} },
     has_git   : BOOLEAN]

\* ignore::WalkBuilder as get_matching_files configures it: the defaults
\* (hidden entries skipped, .ignore files read, git rules only inside a git
\* repository), git_ignore / git_global / git_exclude switched off under
\* no_ignore, and .uvignore added as custom ignore file otherwise.
hidden_filter == TRUE
require_git == TRUE
dot_ignore_enabled(opts) == TRUE
git_ignore_enabled(opts) == ~opts.no_ignore

custom_ignore_never(opts) == FALSE

custom_ignore_enabled(opts) == ~opts.no_ignore

\* The walk does not descend into directory d.
pruned(d, opts, cfg) ==
    \/ hidden_filter /\ hidden(d)
    \/ custom_ignore_enabled(opts) /\ d \in cfg.uvignore
    \/ dot_ignore_enabled(opts) /\ d \in cfg.dotignore
    \/ /\ git_ignore_enabled(opts)
       /\ cfg.has_git \/ ~require_git
       /\ d \in cfg.gitignore

\* The file entries that builder.build() yields.
Yielded(opts, cfg) ==
    { f \in TreeFiles :
        /\ \A k \in 1..Len(dirs_of(f)) : ~pruned(dirs_of(f)[k], opts, cfg)
        /\ ~(hidden_filter /\ hidden(file_name(f))) }

\* TomlParser::filename_match_regex: (?i)[/\\]Cargo\.toml$
filename_match(path) == Len(path) > 1 /\ Lower(file_name(path)) = "cargo.toml"

\* [u8]::cmp: lexicographic order on the bytes of a name.
BytesLess(x, y) ==
    \E k \in 1..(Len(x) + 1) :
        /\ k <= Len(y) + 1
        /\ \A j \in 1..(k - 1) : x[j] = y[j]
        /\ \/ k = Len(x) + 1 /\ k <= Len(y)
           \/ k <= Len(x) /\ k <= Len(y) /\ x[k] < y[k]

NameLess(n, m) == BytesLess(Bytes(n), Bytes(m))

\* Path::cmp: lexicographic order on the components, compared one by one.
path_less(a, b) ==
    \E k \in 1..(Len(a) + 1) :
        /\ k <= Len(b) + 1
        /\ \A j \in 1..(k - 1) : a[j] = b[j]
        /\ \/ k = Len(a) + 1 /\ k <= Len(b)
           \/ k <= Len(a) /\ k <= Len(b) /\ NameLess(a[k], b[k])

\* a.components().count().cmp(&b.components().count()).then_with(|| a.cmp(b))
compare_path_only(a, b) ==
    IF a = b THEN "Equal" ELSE IF path_less(a, b) THEN "Less" ELSE "Greater"

compare(a, b) ==
    IF Len(a) < Len(b) THEN "Less"
    ELSE IF Len(a) > Len(b) THEN "Greater"
    ELSE IF a = b THEN "Equal"
    ELSE IF path_less(a, b) THEN "Less" ELSE "Greater"

\* Vec::sort_by is a stable sort: x goes behind the elements not greater.
RECURSIVE insert_sorted(_, _)
insert_sorted(x, sorted) ==
    IF sorted = <<>> THEN << x >>
    ELSE IF compare(x, Head(sorted)) = "Less" THEN << x >> \o sorted
    ELSE << Head(sorted) >> \o insert_sorted(x, Tail(sorted))

RECURSIVE sort_by(_)
sort_by(v) ==
    IF v = <<>> THEN <<>>
    ELSE insert_sorted(v[Len(v)], sort_by(SubSeq(v, 1, Len(v) - 1)))

\* std::fs::write creates (truncates) the file and writes the content.
WriteOutcomes == { "ok", "error_untouched", "error_truncated" }

ParserOps == { "get_matching_files", "update_version" }

InitRewrite ==
    /\ GitIdle
    /\ SemverIdle
    /\ CredIdle
    /\ EngIdle
    /\ CliIdle
    /\ fs = InitialFs
    /\ ignore_cfg \in IgnoreConfigs
    /\ options \in [no_ignore : BOOLEAN]
    /\ rw_op = "none"
    /\ rw_pc = "idle"
    /\ walked = <<>>
    /\ matching = <<>>
    /\ rw_i = 1
    /\ fs0 = InitialFs
    /\ rw_result = "none"

otherVars == << gitVars, semverVars, credVars, engVars, cliVars >>

\* A call of get_matching_files(path, options) or of
\* update_version(path, version, options), which starts with discovery.
CallParser(op) ==
    /\ rw_pc = "idle"
    /\ rw_op = "none"
    /\ rw_op' = op
    /\ rw_pc' = "walk"
    /\ walked' = <<>>
    /\ matching' = <<>>
    /\ rw_i' = 1
    /\ fs0' = fs
    /\ rw_result' = "none"
    /\ UNCHANGED << fs, ignore_cfg, options, otherVars >>

\* One iteration of `for item in builder.build()`: the walk yields its
\* entries in the order of the directory listing, or an error.
WalkItem(path, ok) ==
    /\ rw_pc = "walk"
    /\ path \in Yielded(options, ignore_cfg)
    /\ \A k \in 1..Len(walked) : walked[k] # path
    /\ IF ok
       THEN /\ walked' = Append(walked, path)
            /\ matching' = IF filename_match(path)
                           THEN Append(matching, path) ELSE matching
            /\ UNCHANGED << rw_pc, rw_result >>
       ELSE /\ rw_pc' = "done"
            /\ rw_result' = "err"
            /\ UNCHANGED << walked, matching >>
    /\ UNCHANGED << fs, ignore_cfg, options, rw_op, rw_i, fs0, otherVars >>

\* The walk is over: files.sort_by(..), and get_matching_files returns.  The
\* record of the walk is dropped when update_version goes on with the list.
SortFiles ==
    /\ rw_pc = "walk"
    /\ \A f \in Yielded(options, ignore_cfg) : \E k \in 1..Len(walked) : walked[k] = f
    /\ matching' = sort_by(matching)
    /\ IF rw_op = "get_matching_files"
       THEN rw_pc' = "done" /\ rw_result' = "ok" /\ walked' = walked
       ELSE rw_pc' = "rewrite" /\ rw_result' = "none" /\ walked' = <<>>
    /\ UNCHANGED << fs, ignore_cfg, options, rw_op, rw_i, fs0, otherVars >>

\* update_version: one iteration of `for file in &files`.
RewriteFile(read_ok, written) ==
    /\ rw_pc = "rewrite"
    /\ rw_i <= Len(matching)
    /\ LET file == matching[rw_i]
           contents == fs[file]
           new_contents == replace_version(contents, TargetVersion)
       IN  IF ~read_ok
           THEN /\ rw_pc' = "done"
                /\ rw_result' = "err"
                /\ UNCHANGED << fs, rw_i >>
           ELSE IF written = "ok"
           THEN /\ fs' = [fs EXCEPT ![file] = new_contents]
                /\ rw_i' = rw_i + 1
                /\ UNCHANGED << rw_pc, rw_result >>
           ELSE /\ fs' = IF written = "error_truncated"
                         THEN [fs EXCEPT ![file] = "truncated"] ELSE fs
                /\ rw_pc' = "done"
                /\ rw_result' = "err"
                /\ UNCHANGED rw_i
    /\ UNCHANGED << ignore_cfg, options, rw_op, walked, matching, fs0, otherVars >>

\* update_version: Ok(files).
ReturnFiles ==
    /\ rw_pc = "rewrite"
    /\ rw_i > Len(matching)
    /\ rw_pc' = "done"
    /\ rw_result' = "ok"
    /\ UNCHANGED << fs, ignore_cfg, options, rw_op, walked, matching, rw_i, fs0,
                    otherVars >>

NextRewrite ==
    \/ \E op \in ParserOps : CallParser(op)
    \/ \E path \in TreeFiles, ok \in BOOLEAN : WalkItem(path, ok)
    \/ SortFiles
    \/ \E read_ok \in BOOLEAN, written \in WriteOutcomes : RewriteFile(read_ok, written)
    \/ ReturnFiles

SpecRewrite == InitRewrite /\ [][NextRewrite]_vars

\* ----------------------------------------------------------------------
\* Properties of discovery and rewriting

ListedFiles == { matching[k] : k \in 1..Len(matching) }

\* C18: the list discovery returns is sorted by number of path components
\* and then lexicographically by path (the names compared one after the
\* other, as Path orders them); it holds each discovered file once, so it is
\* the same sequence whatever the order of the walk.
C18_SortedByDepthThenPath ==
    (rw_pc = "done" /\ rw_result = "ok") =>
        /\ ListedFiles = { f \in Yielded(options, ignore_cfg) : filename_match(f) }
        /\ \A a, b \in 1..Len(matching) :
              a < b =>
                \/ Len(matching[a]) < Len(matching[b])
                \/ /\ Len(matching[a]) = Len(matching[b])
                   /\ path_less(matching[a], matching[b])

\* Discovery returned five files that the walk had yielded in another order,
\* one of them deeper than a file that follows it by name.
C18_Witness ==
    /\ rw_op = "get_matching_files"
    /\ rw_pc = "done"
    /\ rw_result = "ok"
    /\ Len(matching) = 5
    /\ SelectSeq(walked, filename_match) # matching
    /\ walked[1] = DeepManifest
    /\ matching[5] = DeepManifest

\* The files below a directory that one of the given names lists.
Under(names) ==
    { f \in TreeFiles : \E k \in 1..Len(dirs_of(f)) : dirs_of(f)[k] \in names }

Untouched(f) ==
    /\ f \notin ListedFiles
    /\ \A k \in 1..Len(walked) : walked[k] # f
    /\ fs[f] = fs0[f]

\* Only files that discovery lists are modified, and only manifests are
\* listed.
OnlyListedTouched ==
    \A f \in TreeFiles :
        /\ fs[f] # fs0[f] => f \in ListedFiles
        /\ f \in ListedFiles => filename_match(f)

\* C19 (as claimed): with ignore processing enabled, a file under a
\* directory listed in .uvignore or in .gitignore is never returned by
\* discovery nor rewritten; only listed manifests are touched.
C19_IgnoredNeverTouched ==
    (~options.no_ignore /\ rw_op # "none") =>
        /\ \A f \in Under(ignore_cfg.uvignore \cup ignore_cfg.gitignore) : Untouched(f)
        /\ OnlyListedTouched

\* C19 (amended): with ignore processing enabled, a file under a directory
\* listed in .uvignore, or listed in .gitignore when the tree is a git
\* repository, is never returned by discovery nor rewritten; only listed
\* manifests are touched.
C19_IgnoredInRepositoryNeverTouched ==
    (~options.no_ignore /\ rw_op # "none") =>
        /\ \A f \in Under(ignore_cfg.uvignore
                          \cup (IF ignore_cfg.has_git THEN ignore_cfg.gitignore ELSE {})) :
              Untouched(f)
        /\ OnlyListedTouched

\* update_version has returned on a tree whose .uvignore lists vendor/ and
\* whose .gitignore, in a git repository, lists a-b/: the root manifest is
\* rewritten, the two ignored ones are not.
C19_Witness ==
    /\ ~options.no_ignore
    /\ rw_op = "update_version"
    /\ rw_pc = "done"
    /\ rw_result = "ok"
    /\ ignore_cfg.uvignore = {"vendor"}
    /\ ignore_cfg.gitignore = {"a-b"}
    /\ ignore_cfg.has_git
    /\ ignore_cfg.dotignore = {}
    /\ fs[RootManifest] = TargetVersion
    /\ fs[VendorManifest] = "1.0.0"
    /\ fs[ABManifest] = "1.0.0"
    /\ RootManifest \in ListedFiles

\* A file below a hidden directory.
BelowHidden(f) == \E k \in 1..Len(dirs_of(f)) : hidden(dirs_of(f)[k])

\* C20: with no_ignore, the manifests under directories listed in .uvignore
\* or .gitignore are discovered and rewritten, and files below hidden
\* directories are never discovered nor rewritten.
C20_NoIgnoreWalksAllButHidden ==
    (options.no_ignore /\ rw_op # "none") =>
        /\ \A f \in TreeFiles : BelowHidden(f) => Untouched(f)
        /\ (rw_pc = "done" /\ rw_result = "ok") =>
              \A f \in Under(ignore_cfg.uvignore \cup ignore_cfg.gitignore) :
                  (filename_match(f) /\ ~BelowHidden(f)) =>
                      /\ f \in ListedFiles
                      /\ rw_op = "update_version" =>
                            fs[f] = replace_version(fs0[f], TargetVersion)

\* ======================================================================
\* Part 5: the Parser operations on file texts (src/parsers/mod.rs) for the
\* three formats: TomlParser, PackageJsonParser and TauriConfigParser.
\*
\* A text is a sequence of characters.  The regular expressions of the
\* parsers are modelled by the matches they find, the replacement strings
\* by their expansion.

QUOTE == "\""
LF == "\n"
TAB == "\t"

\* \s of the regex crate, on the characters used here.
IsSpace(c) == c \in { " ", TAB, LF }

\* The first position at or after k that holds no \s (Len(s) + 1 at the end).
skip_spaces(s, k) ==
    CHOOSE n \in k..(Len(s) + 1) :
        /\ \A j \in k..(n - 1) : IsSpace(s[j])
        /\ n = Len(s) + 1 \/ ~IsSpace(s[n])

\* The first position at or after k that holds no \d.
skip_digits(s, k) ==
    CHOOSE n \in k..(Len(s) + 1) :
        /\ \A j \in k..(n - 1) : IsDigit(s[j])
        /\ n = Len(s) + 1 \/ ~IsDigit(s[n])

\* The first position at or after k that holds a '"'.
skip_non_quote(s, k) ==
    CHOOSE n \in k..(Len(s) + 1) :
        /\ \A j \in k..(n - 1) : s[j] # QUOTE
        /\ n = Len(s) + 1 \/ s[n] = QUOTE

\* The text holds the literal at position k.
literal_at(s, k, lit) ==
    /\ k + Len(lit) - 1 <= Len(s)
    /\ SubSeq(s, k, k + Len(lit) - 1) = lit

char_at(s, k, c) == k <= Len(s) /\ s[k] = c

\* (?m)^ : the start of the text or the position after a line feed.
line_start(s, k) == k = 1 \/ s[k - 1] = LF

\* A match: the whole match is s[from..to], group 1 is s[from..g1], group 2
\* is s[g1+1..to-1].
NoMatch == [ok |-> FALSE, from |-> 0, g1 |-> 0, to |-> 0]
Match(from, g1, to) == [ok |-> TRUE, from |-> from, g1 |-> g1, to |-> to]

\*     version
kw_version ==
    << "v", "e", "r", "s", "i", "o", "n" >>

\*     "version"
kw_quoted_version ==
    << QUOTE, "v", "e", "r", "s", "i", "o", "n", QUOTE >>

\* TomlParser::version_match_regex at position k:
\*     (?m)^(version\s*=\s*")(\d+\.\d+\.\d+[^"]*)"
toml_match_at(s, k) ==
    LET eq    == skip_spaces(s, k + Len(kw_version))
        open  == skip_spaces(s, eq + 1)
        major == skip_digits(s, open + 1)
        minor == skip_digits(s, major + 1)
        patch == skip_digits(s, minor + 1)
        close == skip_non_quote(s, patch)
    IN  IF /\ line_start(s, k)
           /\ literal_at(s, k, kw_version)
           /\ char_at(s, eq, "=")
           /\ char_at(s, open, QUOTE)
           /\ major > open + 1 /\ char_at(s, major, ".")
           /\ minor > major + 1 /\ char_at(s, minor, ".")
           /\ patch > minor + 1
           /\ close <= Len(s)
        THEN Match(k, open, close)
        ELSE NoMatch

\* PackageJsonParser::version_match_regex at position k:
\*     (?m)^(\s*"version"\s*:\s*")([^"]*)"
json_match_at(s, k) ==
    LET key   == skip_spaces(s, k)
        colon == skip_spaces(s, key + Len(kw_quoted_version))
        open  == skip_spaces(s, colon + 1)
        close == skip_non_quote(s, open + 1)
    IN  IF /\ line_start(s, k)
           /\ literal_at(s, key, kw_quoted_version)
           /\ char_at(s, colon, ":")
           /\ char_at(s, open, QUOTE)
           /\ close <= Len(s)
        THEN Match(k, open, close)
        ELSE NoMatch

Parsers == { "TomlParser", "PackageJsonParser", "TauriConfigParser" }

\* Self::version_match_regex() at position k; TauriConfigParser returns
\* PackageJsonParser's expression.
version_match_at(P, s, k) ==
    IF P = "TomlParser" THEN toml_match_at(s, k) ELSE json_match_at(s, k)

\* Regex::captures: the leftmost match.
captures(P, s) ==
    IF \E k \in 1..Len(s) : version_match_at(P, s, k).ok
    THEN version_match_at(P, s,
             CHOOSE k \in 1..Len(s) :
                 /\ version_match_at(P, s, k).ok
                 /\ \A j \in 1..(k - 1) : ~version_match_at(P, s, j).ok)
    ELSE NoMatch

\* captures.get(1), captures.get(2)
group1(s, m) == SubSeq(s, m.from, m.g1)
group2(s, m) == SubSeq(s, m.g1 + 1, m.to - 1)

\* format!("{}", n) of a small integer.
RECURSIVE digits_of(_)
digits_of(n) ==
    IF n < 10 THEN << n >> ELSE Append(digits_of(n \div 10), n % 10)

\* The value of a short digit sequence.
RECURSIVE value_of(_)
value_of(ds) ==
    IF ds = <<>> THEN 0
    ELSE 10 * value_of(SubSeq(ds, 1, Len(ds) - 1)) + ds[Len(ds)]

\* impl Display for semver::Version: major.minor.patch[-pre][+build]
Display(v) ==
    to_string(digits_of(v.major)) \o << "." >> \o
    to_string(digits_of(v.minor)) \o << "." >> \o
    to_string(v.patch) \o
    (IF v.pre = <<>> THEN <<>> ELSE << "-" >> \o v.pre) \o
    (IF v.build = <<>> THEN <<>> ELSE << "+" >> \o v.build)

\* A numeric identifier of semver: digits without a leading zero, in u64.
numeric_identifier(s) ==
    /\ s # <<>>
    /\ \A k \in 1..Len(s) : IsDigit(s[k])
    /\ Len(s) = 1 \/ s[1] # "0"
    /\ parse_u64(s).ok

\* semver::BuildMetadata::new: dot-separated non-empty identifiers.
BuildMetadata_new(s) ==
    \/ s = <<>>
    \/ \A k \in 1..Len(split(s, ".")) :
         LET id == split(s, ".")[k]
         IN  id # <<>> /\ \A j \in 1..Len(id) : id[j] \in IdentChars

\* The position of the first c in s, Len(s) + 1 when there is none.
find(s, c) ==
    CHOOSE n \in 1..(Len(s) + 1) :
        /\ \A j \in 1..(n - 1) : s[j] # c
        /\ n = Len(s) + 1 \/ s[n] = c

\* semver::Version::parse
Version_parse(text) ==
    LET plus  == find(text, "+")
        front == SubSeq(text, 1, plus - 1)
        build == SubSeq(text, plus + 1, Len(text))
        dash  == find(front, "-")
        core  == split(SubSeq(front, 1, dash - 1), ".")
        pre   == SubSeq(front, dash + 1, Len(front))
    IN  IF /\ Len(core) = 3
           /\ \A k \in 1..3 : numeric_identifier(core[k])
           /\ dash <= Len(front) => pre # <<>> /\ Prerelease_new(pre)
           /\ plus <= Len(text) => build # <<>> /\ BuildMetadata_new(build)
        THEN [ok |-> TRUE,
              version |->
                [major |-> value_of(parse_u64(core[1]).n),
                 minor |-> value_of(parse_u64(core[2]).n),
                 patch |-> parse_u64(core[3]).n,
                 pre   |-> pre,
                 build |-> build]]
        ELSE [ok |-> FALSE, version |-> NoVersion]

\* TomlParser::version_line_format: format!("${{1}}{version}\"")
toml_quote_doubled(ver) ==
    << "$", "{", "1", "}" >> \o Display(ver) \o << QUOTE, QUOTE >>

toml_version_line_format(ver) ==
    << "$", "{", "1", "}" >> \o Display(ver) \o << QUOTE >>

\* PackageJsonParser::version_line_format: format!("${{1}}{version}\"")
package_json_version_line_format(ver) ==
    << "$", "{", "1", "}" >> \o Display(ver) \o << QUOTE >>

\* TauriConfigParser::version_line_format:
\*     format!(r#""version": "{}.{}.{}""#, version.major, version.minor, version.patch)
tauri_whole_version(ver) ==
    kw_quoted_version \o << ":", " ", QUOTE >> \o Display(ver) \o << QUOTE >>

tauri_version_line_format(ver) ==
    kw_quoted_version \o << ":", " ", QUOTE >> \o
    to_string(digits_of(ver.major)) \o << "." >> \o
    to_string(digits_of(ver.minor)) \o << "." >> \o
    to_string(ver.patch) \o << QUOTE >>

\* Self::version_line_format(version)
version_line_format(P, ver) ==
    CASE P = "TomlParser"        -> toml_version_line_format(ver)
      [] P = "PackageJsonParser" -> package_json_version_line_format(ver)
      [] P = "TauriConfigParser" -> tauri_version_line_format(ver)

\* The expansion of a replacement string: ${1} and ${2} stand for the
\* capture groups, every other character for itself.
RECURSIVE expand(_, _, _)
expand(rep, s, m) ==
    IF rep = <<>> THEN <<>>
    ELSE IF literal_at(rep, 1, << "$", "{", "1", "}" >>)
    THEN group1(s, m) \o expand(SubSeq(rep, 5, Len(rep)), s, m)
    ELSE IF literal_at(rep, 1, << "$", "{", "2", "}" >>)
    THEN group2(s, m) \o expand(SubSeq(rep, 5, Len(rep)), s, m)
    ELSE << Head(rep) >> \o expand(Tail(rep), s, m)

\* The last match of the text is the one replaced.
rightmost_match(P, contents) ==
    IF \E k \in 1..Len(contents) : version_match_at(P, contents, k).ok
    THEN version_match_at(P, contents,
             CHOOSE k \in 1..Len(contents) :
                 /\ version_match_at(P, contents, k).ok
                 /\ \A j \in (k + 1)..Len(contents) :
                        ~version_match_at(P, contents, j).ok)
    ELSE NoMatch

\* Regex::replace (not replace_all): the one match that is replaced is
\* the leftmost.
replaced_match(P, contents) == captures(P, contents)

\* A text without a match gets the replacement appended.
replace_or_append(P, contents, rep) ==
    LET m == captures(P, contents)
    IN  IF m.ok
        THEN SubSeq(contents, 1, m.from - 1) \o expand(rep, contents, m) \o
             SubSeq(contents, m.to + 1, Len(contents))
        ELSE contents \o rep

\* Regex::replace(contents, rep): the leftmost match is replaced by the
\* expansion of rep, a text without a match is returned as it is.
replace(P, contents, rep) ==
    LET m == replaced_match(P, contents)
    IN  IF m.ok
        THEN SubSeq(contents, 1, m.from - 1) \o expand(rep, contents, m) \o
             SubSeq(contents, m.to + 1, Len(contents))
        ELSE contents

\* The texts of the files.
\*     [package]
\*     version = "1.0.0"
\*     edition = "2021"
CargoPlain ==
    << "[", "p", "a", "c", "k", "a", "g", "e", "]", LF, "v", "e", "r",
       "s", "i", "o", "n", " ", "=", " ", QUOTE, "1", ".", "0", ".", "0",
       QUOTE, LF, "e", "d", "i", "t", "i", "o", "n", " ", "=", " ",
       QUOTE, "2", "0", "2", "1", QUOTE, LF >>

\*     [package]
\*     version = "0.9.0"
CargoOther ==
    << "[", "p", "a", "c", "k", "a", "g", "e", "]", LF, "v", "e", "r",
       "s", "i", "o", "n", " ", "=", " ", QUOTE, "0", ".", "9", ".", "0",
       QUOTE, LF >>

\*     [package]
\*     name = "x"
CargoNoVersion ==
    << "[", "p", "a", "c", "k", "a", "g", "e", "]", LF, "n", "a", "m",
       "e", " ", "=", " ", QUOTE, "x", QUOTE, LF >>

\*     [package]
\*     version  =<TAB>"1.0.0-rc.1" # v
CargoSpaced ==
    << "[", "p", "a", "c", "k", "a", "g", "e", "]", LF, "v", "e", "r",
       "s", "i", "o", "n", " ", " ", "=", TAB, QUOTE, "1", ".", "0", ".",
       "0", "-", "r", "c", ".", "1", QUOTE, " ", "#", " ", "v", LF >>

\*     [package]
\*     version = "1.0.0"
\*     
\*     [dependencies.s]
\*     version = "0.1.0"
CargoDepLast ==
    << "[", "p", "a", "c", "k", "a", "g", "e", "]", LF, "v", "e", "r",
       "s", "i", "o", "n", " ", "=", " ", QUOTE, "1", ".", "0", ".", "0",
       QUOTE, LF, LF, "[", "d", "e", "p", "e", "n", "d", "e", "n", "c",
       "i", "e", "s", ".", "s", "]", LF, "v", "e", "r", "s", "i", "o",
       "n", " ", "=", " ", QUOTE, "0", ".", "1", ".", "0", QUOTE, LF >>

\*     [dependencies.s]
\*     version = "0.1.0"
\*     
\*     [package]
\*     version = "1.0.0"
CargoDepFirst ==
    << "[", "d", "e", "p", "e", "n", "d", "e", "n", "c", "i", "e", "s",
       ".", "s", "]", LF, "v", "e", "r", "s", "i", "o", "n", " ", "=",
       " ", QUOTE, "0", ".", "1", ".", "0", QUOTE, LF, LF, "[", "p", "a",
       "c", "k", "a", "g", "e", "]", LF, "v", "e", "r", "s", "i", "o",
       "n", " ", "=", " ", QUOTE, "1", ".", "0", ".", "0", QUOTE, LF >>

\*     {
\*       "version": "1.0.0",
\*       "x": 1
\*     }
JsonPlain ==
    << "{", LF, " ", " ", QUOTE, "v", "e", "r", "s", "i", "o", "n",
       QUOTE, ":", " ", QUOTE, "1", ".", "0", ".", "0", QUOTE, ",", LF,
       " ", " ", QUOTE, "x", QUOTE, ":", " ", "1", LF, "}", LF >>

\*     {
\*       "version": "0.9.0"
\*     }
JsonOther ==
    << "{", LF, " ", " ", QUOTE, "v", "e", "r", "s", "i", "o", "n",
       QUOTE, ":", " ", QUOTE, "0", ".", "9", ".", "0", QUOTE, LF, "}",
       LF >>

\*     {
\*       "x": 1
\*     }
JsonNoVersion ==
    << "{", LF, " ", " ", QUOTE, "x", QUOTE, ":", " ", "1", LF, "}", LF >>

\*     {
\*     
\*     <TAB>"version" : "1.0.0-rc.1"
\*     }
JsonSpaced ==
    << "{", LF, LF, TAB, QUOTE, "v", "e", "r", "s", "i", "o", "n", QUOTE,
       " ", ":", " ", QUOTE, "1", ".", "0", ".", "0", "-", "r", "c", ".",
       "1", QUOTE, LF, "}", LF >>

\*     {
\*       "version": "../package.json"
\*     }
JsonPath ==
    << "{", LF, " ", " ", QUOTE, "v", "e", "r", "s", "i", "o", "n",
       QUOTE, ":", " ", QUOTE, ".", ".", "/", "p", "a", "c", "k", "a",
       "g", "e", ".", "j", "s", "o", "n", QUOTE, LF, "}", LF >>

\*     {
\*       "version": "1.0.0",
\*       "d": {
\*         "version": "0.1.0"
\*       }
\*     }
JsonNested ==
    << "{", LF, " ", " ", QUOTE, "v", "e", "r", "s", "i", "o", "n",
       QUOTE, ":", " ", QUOTE, "1", ".", "0", ".", "0", QUOTE, ",", LF,
       " ", " ", QUOTE, "d", QUOTE, ":", " ", "{", LF, " ", " ", " ",
       " ", QUOTE, "v", "e", "r", "s", "i", "o", "n", QUOTE, ":", " ",
       QUOTE, "0", ".", "1", ".", "0", QUOTE, LF, " ", " ", "}", LF, "}",
       LF >>

\* The files below `path`: one of each format in the directory itself and
\* one in its subdirectory a/.
CargoName == "Cargo.toml"
PackageName == "package.json"
TauriName == "tauri.conf.json"

name_of(P) ==
    CASE P = "TomlParser"        -> CargoName
      [] P = "PackageJsonParser" -> PackageName
      [] P = "TauriConfigParser" -> TauriName

TopFile(P) == InProject(<< name_of(P) >>)
SubFile(P) == InProject(<< "a", name_of(P) >>)

\* The texts a file of the parser's format starts with; NoFile: no such file.
NoFile == << "absent" >>

TopTexts(P) ==
    IF P = "TomlParser"
    THEN { NoFile, CargoPlain, CargoNoVersion, CargoSpaced, CargoDepLast,
           CargoDepFirst }
    ELSE { NoFile, JsonPlain, JsonNoVersion, JsonSpaced, JsonPath,
           JsonNested }

SubTexts(P) ==
    IF P = "TomlParser" THEN { NoFile, CargoOther, CargoNoVersion }
                        ELSE { NoFile, JsonOther, JsonNoVersion }

\* The files of the other formats, which stay as they are.
OtherFiles(P) ==
    [f \in { TopFile(Q) : Q \in Parsers \ {P} } |->
        IF f = TopFile("TomlParser") THEN CargoPlain ELSE JsonPlain]

\* The tree with the given texts of the parser's two files.
Tree(P, top, sub) ==
    LET own == [f \in { TopFile(P), SubFile(P) } |->
                   IF f = TopFile(P) THEN top ELSE sub]
        present == { f \in DOMAIN own : own[f] # NoFile }
    IN  [f \in present \cup DOMAIN OtherFiles(P) |->
            IF f \in present THEN own[f] ELSE OtherFiles(P)[f]]

\* The versions handed to update_version: 2.0.0 and 2.0.0-rc.1+b7.
Targets ==
    { [major |-> 2, minor |-> 0, patch |-> << 0 >>, pre |-> <<>>, build |-> <<>>],
      [major |-> 2, minor |-> 0, patch |-> << 0 >>,
       pre |-> << "r", "c", ".", "1" >>, build |-> << "b", "7" >>] }

\* Self::filename_match_regex(): (?i)[/\\]Cargo\.toml$, (?i)[/\\]package\.json$
\* and (?i)[/\\]tauri\.conf\.json$ on the path of a walk entry.
filename_match_regex(P, path) ==
    Len(path) > 1 /\ Lower(file_name(path)) = Lower(name_of(P))

\* The elements of a finite set in some order.
RECURSIVE SetToSeq(_)
SetToSeq(S) ==
    IF S = {} THEN <<>>
    ELSE LET x == CHOOSE y \in S : TRUE IN << x >> \o SetToSeq(S \ {x})

\* get_matching_files on a readable tree: the walk entries that match the
\* filename expression, sorted.
get_matching_files(P, tree) ==
    sort_by(SetToSeq({ f \in DOMAIN tree : filename_match_regex(P, f) }))

EngineOps == { "get_current_version", "update_version", "increment_version" }

OkVersion(v) == [kind |-> "Ok", version |-> v, error |-> "", root |-> <<>>]
OkFiles == [kind |-> "Ok", version |-> NoVersion, error |-> "", root |-> <<>>]
Failed(error) ==
    [kind |-> "Err", version |-> NoVersion, error |-> error, root |-> <<>>]
\* ParsingError::NoVersionFoundError(path.to_string_lossy().to_string())
NoVersionFoundError(path) ==
    [kind |-> "Err", version |-> NoVersion, error |-> "NoVersionFoundError",
     root |-> path]
Panicked ==
    [kind |-> "panic", version |-> NoVersion, error |-> "", root |-> <<>>]

InitEngine ==
    /\ GitIdle
    /\ SemverIdle
    /\ CredIdle
    /\ RwIdle
    /\ CliIdle
    /\ parser \in Parsers
    /\ root_state \in { "dir", "missing", "unreadable" }
    /\ \E top \in TopTexts(parser), sub \in SubTexts(parser) :
         disk = IF root_state = "missing" THEN << >> ELSE Tree(parser, top, sub)
    /\ disk0 = disk
    /\ eng_op = "none"
    /\ eng_pc = "idle"
    /\ eng_files = <<>>
    /\ eng_i = 1
    /\ current_version = NoVersion
    /\ new_version = NoVersion
    /\ eng_out = NoResult

restVars == << gitVars, semverVars, credVars, rwVars, cliVars >>

\* A Parser operation is called on the directory.
CallEngine(op, ver) ==
    /\ eng_pc = "idle"
    /\ eng_op = "none"
    /\ eng_op' = op
    /\ new_version' = IF op = "update_version" THEN ver ELSE NoVersion
    /\ eng_pc' = IF op = "update_version" THEN "update_version:files"
                                        ELSE "get_current_version:files"
    /\ UNCHANGED << parser, root_state, disk, disk0, eng_files, eng_i,
                    current_version, eng_out, restVars >>

\* The walk yields its entries whatever the state of the directory.
walk_error_never(state) == FALSE

\* let item = item?; the walk yields an error for a directory that is
\* missing or cannot be read.
walk_error(state) == state # "dir"

\* let files = Self::get_matching_files(path, options)?;
GetMatchingFiles ==
    /\ eng_pc \in { "get_current_version:files", "update_version:files" }
    /\ IF ~walk_error(root_state)
       THEN /\ eng_files' = get_matching_files(parser, disk)
            /\ eng_i' = 1
            /\ eng_pc' = IF eng_pc = "update_version:files"
                         THEN "update_version:loop"
                         ELSE "get_current_version:loop"
            /\ UNCHANGED eng_out
       ELSE /\ eng_out' = Failed("walk")
            /\ eng_pc' = "done"
            /\ UNCHANGED << eng_files, eng_i >>
    /\ UNCHANGED << parser, root_state, disk, disk0, eng_op, current_version,
                    new_version, restVars >>

\* get_current_version: one turn of `for file in files`, or the error
\* behind the loop.
LocateVersion(read_ok) ==
    /\ eng_pc = "get_current_version:loop"
    /\ IF eng_i > Len(eng_files)
       THEN /\ read_ok
            /\ eng_out' = NoVersionFoundError(project)
            /\ eng_pc' = "done"
            /\ UNCHANGED << eng_i, current_version >>
       ELSE LET contents == disk[eng_files[eng_i]]
                m        == captures(parser, contents)
                parsed   == Version_parse(group2(contents, m))
            IN  IF ~read_ok
                THEN /\ eng_out' = Failed("io")
                     /\ eng_pc' = "done"
                     /\ UNCHANGED << eng_i, current_version >>
                ELSE IF ~m.ok
                THEN /\ eng_i' = eng_i + 1
                     /\ UNCHANGED << eng_pc, eng_out, current_version >>
                ELSE IF ~parsed.ok
                THEN /\ eng_out' = Failed("semver")
                     /\ eng_pc' = "done"
                     /\ UNCHANGED << eng_i, current_version >>
                ELSE IF eng_op = "get_current_version"
                THEN /\ eng_out' = OkVersion(parsed.version)
                     /\ eng_pc' = "done"
                     /\ UNCHANGED << eng_i, current_version >>
                ELSE /\ current_version' = parsed.version
                     /\ eng_pc' = "increment_semver"
                     /\ UNCHANGED << eng_i, eng_out >>
    /\ UNCHANGED << parser, root_state, disk, disk0, eng_op, eng_files,
                    new_version, restVars >>

\* increment_version hands the current version on as it is.
increment_skipped(cur, checks) == Ok(cur)

\* increment_semver(&current_version)
incremented(cur, checks) == increment_semver(cur, checks)

\* increment_version: let new_version = increment_semver(&current_version)?;
IncrementCurrent(checks) ==
    /\ eng_pc = "increment_semver"
    /\ LET r == incremented(current_version, checks)
       IN  IF r.kind = "Ok"
           THEN /\ new_version' = r.next
                /\ eng_pc' = "update_version:files"
                /\ UNCHANGED eng_out
           ELSE /\ eng_out' = IF r.kind = "panic" THEN Panicked
                                                  ELSE Failed("semver")
                /\ eng_pc' = "done"
                /\ UNCHANGED new_version
    /\ UNCHANGED << parser, root_state, disk, disk0, eng_op, eng_files, eng_i,
                    current_version, restVars >>

\* update_version only rewrites the first file.
rewrite_all_first_only(k) == k = 1

\* update_version: file number k of the list is rewritten.
rewrite_all(k) == TRUE

\* The loop takes the files from the end of the list.
file_of_turn_reversed(list, k) == list[Len(list) + 1 - k]

\* for file in &files: turn k of the loop takes file number k of the list.
file_of_turn(list, k) == list[k]

\* update_version: one turn of `for file in &files`.
UpdateFile(read_ok, written) ==
    /\ eng_pc = "update_version:loop"
    /\ eng_i <= Len(eng_files)
    /\ LET file         == file_of_turn(eng_files, eng_i)
           contents     == disk[file]
           new_contents ==
               IF rewrite_all(eng_i)
               THEN replace(parser, contents,
                            version_line_format(parser, new_version))
               ELSE contents
       IN  IF ~read_ok
           THEN /\ written = "ok"
                /\ eng_out' = Failed("io")
                /\ eng_pc' = "done"
                /\ UNCHANGED << disk, eng_i >>
           ELSE IF written = "ok"
           THEN /\ disk' = [disk EXCEPT ![file] = new_contents]
                /\ eng_i' = eng_i + 1
                /\ UNCHANGED << eng_pc, eng_out >>
           ELSE /\ disk' = IF written = "error_truncated"
                           THEN [disk EXCEPT ![file] = << >>]
                           ELSE disk
                /\ eng_out' = Failed("io")
                /\ eng_pc' = "done"
                /\ UNCHANGED eng_i
    /\ UNCHANGED << parser, root_state, disk0, eng_op, eng_files,
                    current_version, new_version, restVars >>

\* Ok(files)
ReturnModified ==
    /\ eng_pc = "update_version:loop"
    /\ eng_i > Len(eng_files)
    /\ eng_out' = OkFiles
    /\ eng_pc' = "done"
    /\ UNCHANGED << parser, root_state, disk, disk0, eng_op, eng_files, eng_i,
                    current_version, new_version, restVars >>

\* The caller reads the version back once the update has returned its
\* list: get_current_version on the tree as the update left it.
ReadBack ==
    /\ eng_pc = "done"
    /\ eng_op \in { "update_version", "increment_version" }
    /\ eng_out = OkFiles
    /\ eng_op' = "get_current_version"
    /\ eng_pc' = "get_current_version:files"
    /\ disk0' = disk
    /\ eng_files' = <<>>
    /\ eng_i' = 1
    /\ eng_out' = NoResult
    /\ UNCHANGED << parser, root_state, disk, current_version, new_version,
                    restVars >>

NextEngine ==
    \/ \E op \in EngineOps, ver \in Targets : CallEngine(op, ver)
    \/ ReadBack
    \/ GetMatchingFiles
    \/ \E read_ok \in BOOLEAN : LocateVersion(read_ok)
    \/ \E checks \in BOOLEAN : IncrementCurrent(checks)
    \/ \E read_ok \in BOOLEAN, written \in WriteOutcomes :
           UpdateFile(read_ok, written)
    \/ ReturnModified

SpecEngine == InitEngine /\ [][NextEngine]_vars

\* ----------------------------------------------------------------------
\* Properties of the Parser operations.

\* The operation has returned.
Finished(op) == eng_op = op /\ eng_pc = "done"

\* The operation ran into an error of the file system.
IoFailure == eng_out.kind = "Err" /\ eng_out.error \in { "io", "walk" }

\* The text of the file held a version match when the operation was called.
HasMatch(f) == captures(parser, disk0[f]).ok

\* The text that the match of the file held as its version.
LocatedText(f) == group2(disk0[f], captures(parser, disk0[f]))

\* The first file of the list with a version match.
FirstMatch ==
    eng_files[CHOOSE k \in 1..Len(eng_files) :
                 /\ HasMatch(eng_files[k])
                 /\ \A j \in 1..(k - 1) : ~HasMatch(eng_files[j])]

\* C21: get_current_version returns the version located in the first file,
\* in discovery order, that contains a version match, skipping the files
\* before it that contain none; when no discovered file contains a match
\* (or no file is discovered) it fails with the no-version-found error that
\* carries the searched root.
C21_FirstMatchIsCurrentVersion ==
    (Finished("get_current_version") /\ ~IoFailure) =>
        IF \E k \in 1..Len(eng_files) : HasMatch(eng_files[k])
        THEN /\ eng_out.kind = "Ok"
             /\ Display(eng_out.version) = LocatedText(FirstMatch)
        ELSE eng_out = NoVersionFoundError(project)

\* The text that stands for the version in a file of the parser's format.
Rendered(P, ver) ==
    IF P = "TauriConfigParser"
    THEN to_string(digits_of(ver.major)) \o << "." >> \o
         to_string(digits_of(ver.minor)) \o << "." >> \o to_string(ver.patch)
    ELSE Display(ver)

\* The text that the file now holds as its version.
VersionNow(f) == group2(disk[f], captures(parser, disk[f]))

\* update_version has returned its list.
Updated == Finished("update_version") /\ eng_out.kind = "Ok"

\* C22: update_version rewrites every discovered file that contains a
\* locatable version, not only the first, so that each holds the rendered
\* target version afterwards, and it returns every discovered path in
\* discovery order.
C22_EveryFileRewritten ==
    Updated =>
        /\ \A k \in 1..Len(eng_files) :
             HasMatch(eng_files[k]) =>
                 /\ captures(parser, disk[eng_files[k]]).ok
                 /\ VersionNow(eng_files[k]) = Rendered(parser, new_version)
        /\ Range(eng_files) =
               { f \in DOMAIN disk0 : file_name(f) = name_of(parser) }
        /\ \A j, k \in 1..Len(eng_files) :
               j < k => compare(eng_files[j], eng_files[k]) = "Less"

C22_Witness ==
    /\ Updated
    /\ Len(eng_files) = 2
    /\ HasMatch(eng_files[1]) /\ HasMatch(eng_files[2])
    /\ VersionNow(eng_files[2]) # LocatedText(eng_files[2])

\* Only the version text of a listed file has changed: the text before it,
\* up to and with the opening quote, and the text from the closing quote on
\* are those of the old text; any other file is as it was.
OnlyVersionTextChanged(f) ==
    LET before == disk0[f]
        m   == captures(parser, before)
    IN  IF f \in Range(eng_files) /\ m.ok
        THEN disk[f] = SubSeq(before, 1, m.g1) \o Rendered(parser, new_version) \o
                       SubSeq(before, m.to, Len(before))
        ELSE disk[f] = before

\* C23: for every supported format, update_version changes only the
\* version value token of a file: every other byte, the indentation and
\* spacing of the version line included, is the same before and after.
C23_OnlyVersionTokenChanges ==
    Updated => \A f \in DOMAIN disk0 : OnlyVersionTextChanged(f)

\* The quotes in s[from..to].
Quotes(s, from, to) == { k \in from..to : s[k] = QUOTE }

\* C24: after update_version on a Cargo.toml or package.json file the
\* version line holds the target version between exactly one opening and
\* one closing quote: the closing quote is not duplicated and is followed
\* by what followed it before.
C24_OneClosingQuote ==
    (Updated /\ parser \in { "TomlParser", "PackageJsonParser" }) =>
        \A f \in Range(eng_files) :
            HasMatch(f) =>
                LET m      == captures(parser, disk0[f])
                    text   == Display(new_version)
                    open   == m.g1
                    close  == m.g1 + Len(text) + 1
                    behind == SubSeq(disk0[f], m.to + 1, Len(disk0[f]))
                IN  /\ Len(disk[f]) = close + Len(behind)
                    /\ disk[f][open] = QUOTE
                    /\ SubSeq(disk[f], open + 1, close - 1) = text
                    /\ Quotes(disk[f], open, close) = { open, close }
                    /\ SubSeq(disk[f], close + 1, Len(disk[f])) = behind

C24_Witness ==
    /\ Updated
    /\ parser \in { "TomlParser", "PackageJsonParser" }
    /\ \E f \in Range(eng_files) :
         /\ HasMatch(f)
         /\ disk[f] # disk0[f]
         /\ captures(parser, disk0[f]).to < Len(disk0[f])

\* The text holds the other text somewhere.
Contains(s, sub) ==
    \E k \in 1..(Len(s) - Len(sub) + 1) : SubSeq(s, k, k + Len(sub) - 1) = sub

\* major.minor.patch of a version.
CoreText(ver) ==
    to_string(digits_of(ver.major)) \o << "." >> \o
    to_string(digits_of(ver.minor)) \o << "." >> \o to_string(ver.patch)

\* C25: for a tauri.conf.json file update_version writes only
\* major.minor.patch of the target: the prerelease and the build part of
\* the target never appear in the resulting content.
C25_TauriDropsPrereleaseAndBuild ==
    (Updated /\ parser = "TauriConfigParser") =>
        \A f \in Range(eng_files) :
            HasMatch(f) =>
                /\ VersionNow(f) = CoreText(new_version)
                /\ new_version.pre # <<>> =>
                       ~Contains(disk[f], << "-" >> \o new_version.pre)
                /\ new_version.build # <<>> =>
                       ~Contains(disk[f], << "+" >> \o new_version.build)

C25_Witness ==
    /\ Updated
    /\ parser = "TauriConfigParser"
    /\ new_version.pre # <<>>
    /\ new_version.build # <<>>
    /\ \E f \in Range(eng_files) : HasMatch(f) /\ disk[f] # disk0[f]

\* What get_current_version yields on a tree that is read without error.
CurrentOf(P, tree) ==
    LET listed == get_matching_files(P, tree)
        hits   == { k \in 1..Len(listed) : captures(P, tree[listed[k]]).ok }
        first  == listed[CHOOSE k \in hits : \A j \in hits : k <= j]
    IN  IF hits = {}
        THEN [ok |-> FALSE, version |-> NoVersion]
        ELSE Version_parse(group2(tree[first], captures(P, tree[first])))

\* The tree that update_version leaves when every file is read and written.
UpdatedTree(P, tree, ver) ==
    [f \in DOMAIN tree |->
        IF filename_match_regex(P, f)
        THEN replace(P, tree[f], version_line_format(P, ver))
        ELSE tree[f]]

\* C26: increment_version leaves the files in the same state and returns
\* the same list as update_version called with the increment of what
\* get_current_version returns; when get_current_version fails,
\* increment_version fails and no file is modified.
C26_IncrementIsComposition ==
    Finished("increment_version") =>
        LET cur == CurrentOf(parser, disk0)
        IN  /\ (~cur.ok \/ current_version = NoVersion) =>
                   eng_out.kind = "Err" /\ disk = disk0
            /\ eng_out.kind = "Ok" =>
                   /\ cur.ok
                   /\ current_version = cur.version
                   /\ \E checks \in BOOLEAN :
                        LET next == increment_semver(cur.version, checks)
                        IN  /\ next.kind = "Ok"
                            /\ disk = UpdatedTree(parser, disk0, next.next)
                   /\ eng_files = get_matching_files(parser, disk0)

C26_Witness ==
    /\ Finished("increment_version")
    /\ eng_out.kind = "Ok"
    /\ Len(eng_files) = 2
    /\ disk[eng_files[1]] # disk0[eng_files[1]]
    /\ current_version.pre # <<>>

C26_FailureWitness ==
    /\ Finished("increment_version")
    /\ eng_out = NoVersionFoundError(project)
    /\ Len(eng_files) > 0

\* C27: each file rewrite of update_version is atomic: at every point of
\* the operation, also when it fails part-way, every matching file holds
\* either its complete old content or its complete new content.
C27_RewriteIsAtomic ==
    eng_op \in { "update_version", "increment_version" } =>
        \A f \in DOMAIN disk0 :
            \/ disk[f] = disk0[f]
            \/ disk[f] = UpdatedTree(parser, disk0, new_version)[f]

\* C28: discovery on a root that does not exist or cannot be read fails
\* with an error and no file is modified; a root with no matching file is
\* not an error: update_version returns success with an empty list.
C28_MissingRootFailsEmptyRootSucceeds ==
    /\ (eng_pc = "done" /\ root_state # "dir") =>
           eng_out.kind = "Err" /\ disk = disk0
    /\ (Finished("update_version") /\ root_state = "dir"
          /\ \A f \in DOMAIN disk0 : file_name(f) # name_of(parser)) =>
           eng_out = OkFiles /\ eng_files = <<>> /\ disk = disk0

C28_Witness ==
    /\ Finished("update_version")
    /\ root_state = "unreadable"
    /\ \E f \in DOMAIN disk0 : file_name(f) = name_of(parser) /\ HasMatch(f)

C28_EmptyWitness ==
    /\ Finished("update_version")
    /\ root_state = "dir"
    /\ eng_files = <<>>

\* C29: a discovered file that matches the filename predicate but contains
\* no locatable version text has the same content after update_version as
\* before, and its path is still in the returned list.
C29_FileWithoutVersionKeptAndListed ==
    Updated =>
        \A f \in DOMAIN disk0 :
            (file_name(f) = name_of(parser) /\ ~HasMatch(f)) =>
                disk[f] = disk0[f] /\ f \in Range(eng_files)

C29_Witness ==
    /\ Updated
    /\ Len(eng_files) = 2
    /\ ~HasMatch(eng_files[1])
    /\ HasMatch(eng_files[2])
    /\ disk[eng_files[2]] # disk0[eng_files[2]]

\*     [package]
PackageTable ==
    << "[", "p", "a", "c", "k", "a", "g", "e", "]" >>

\* The lines of a text.
Lines(text) == split(text, LF)

\* The lines of the [package] table that are version lines.
PackageVersionLines(text) ==
    LET lines == Lines(text)
    IN  { k \in 1..Len(lines) :
            /\ toml_match_at(lines[k], 1).ok
            /\ \E p \in 1..(k - 1) :
                 /\ lines[p] = PackageTable
                 /\ \A j \in (p + 1)..k : ~char_at(lines[j], 1, "[") }

\* The version lines of the other tables.
DependencyVersionLines(text) ==
    { k \in 1..Len(Lines(text)) : toml_match_at(Lines(text)[k], 1).ok }
        \ PackageVersionLines(text)

\* The version that the [package] table of a manifest gives.
PackageVersionOf(text) ==
    LET line == Lines(text)[CHOOSE k \in PackageVersionLines(text) : TRUE]
    IN  group2(line, toml_match_at(line, 1))

\* C30: the Cargo.toml version locator returns the package version and
\* never a dependency's version, for every manifest that contains a package
\* version together with dependency version entries, wherever in the file
\* those entries are placed.
C30_LocatorFindsPackageVersion ==
    (Finished("get_current_version") /\ parser = "TomlParser"
       /\ eng_out.kind = "Ok") =>
        LET text == disk0[FirstMatch]
        IN  (PackageVersionLines(text) # {} /\ DependencyVersionLines(text) # {})
                => Display(eng_out.version) = PackageVersionOf(text)

\* get_current_version was called after an update and has returned.
ReadBackFinished ==
    /\ Finished("get_current_version")
    /\ new_version # NoVersion

\* C35: once update_version(root, t) has succeeded on a tree with at least
\* one Cargo.toml (or package.json) that holds a locatable version,
\* get_current_version on the same root returns exactly t; for
\* tauri.conf.json it returns t without its prerelease and build parts.
C35_UpdateThenCurrentRoundTrip ==
    (/\ ReadBackFinished
     /\ ~IoFailure
     /\ \E f \in Range(eng_files) : HasMatch(f)) =>
        /\ eng_out.kind = "Ok"
        /\ eng_out.version =
               IF parser = "TauriConfigParser"
               THEN [new_version EXCEPT !.pre = << >>, !.build = << >>]
               ELSE new_version

C35_Witness ==
    /\ ReadBackFinished
    /\ eng_out.kind = "Ok"
    /\ eng_out.version = new_version
    /\ new_version.pre # << >>
    /\ new_version.build # << >>
    /\ Len(eng_files) = 2
    /\ ~HasMatch(eng_files[1])

C35_TauriWitness ==
    /\ ReadBackFinished
    /\ parser = "TauriConfigParser"
    /\ eng_out.kind = "Ok"
    /\ new_version.pre # << >>
    /\ eng_out.version.pre = << >>

\* update_version has returned an error met at a file of its loop.
UpdateFailedAtFile ==
    /\ eng_pc = "done"
    /\ eng_op \in { "update_version", "increment_version" }
    /\ new_version # NoVersion
    /\ eng_out = Failed("io")

\* The text of the file once update_version has rewritten it.
RewrittenText(f) ==
    replace(parser, disk0[f], version_line_format(parser, new_version))

\* C37: when update_version returns an error while it processes the k-th
\* discovered file, the files already rewritten are exactly the first k-1
\* files of the discovery order, the later files (and every file that was
\* not discovered) are unchanged, and the caller receives no file list.
C37_FailureLeavesRewrittenPrefix ==
    UpdateFailedAtFile =>
        /\ eng_i \in 1..Len(eng_files)
        /\ \A j \in 1..(eng_i - 1) :
               disk[eng_files[j]] = RewrittenText(eng_files[j])
        /\ \A j \in (eng_i + 1)..Len(eng_files) :
               disk[eng_files[j]] = disk0[eng_files[j]]
        /\ \A f \in DOMAIN disk0 :
               f \notin Range(eng_files) => disk[f] = disk0[f]
        /\ DOMAIN disk = DOMAIN disk0
        /\ eng_out.kind = "Err"

\* The second of two files with a version could not be processed: the
\* first holds the new version and the second is as it was.
C37_Witness ==
    /\ UpdateFailedAtFile
    /\ Len(eng_files) = 2
    /\ eng_i = 2
    /\ HasMatch(eng_files[1]) /\ HasMatch(eng_files[2])
    /\ disk[eng_files[1]] # disk0[eng_files[1]]
    /\ disk[eng_files[2]] = disk0[eng_files[2]]

\* The first of two files could not be processed: the second is unchanged.
C37_FirstWitness ==
    /\ UpdateFailedAtFile
    /\ Len(eng_files) = 2
    /\ eng_i = 1
    /\ HasMatch(eng_files[2])
    /\ disk[eng_files[2]] = disk0[eng_files[2]]

\* The matches of the text behind its first one, by where they start.
LaterMatches(P, text) ==
    { k \in (captures(P, text).to + 1)..Len(text) :
          version_match_at(P, text, k).ok }

\* The version text of the match of the text that starts at k.
VersionAt(P, text, k) == group2(text, version_match_at(P, text, k))

\* C39: update_version replaces at most one version occurrence per file,
\* the first one the locator matches: the text before it is kept, every
\* later matching line holds its old value, and the occurrence that was
\* replaced is the one that get_current_version reads.
C39_OnlyFirstOccurrenceReplaced ==
    Updated =>
        \A f \in Range(eng_files) :
            HasMatch(f) =>
                LET before == disk0[f]
                    after  == disk[f]
                    m      == captures(parser, before)
                    n      == captures(parser, after)
                    shift  == Len(after) - Len(before)
                IN  /\ SubSeq(after, 1, m.from - 1) =
                           SubSeq(before, 1, m.from - 1)
                    /\ SubSeq(after, m.to + 1 + shift, Len(after)) =
                           SubSeq(before, m.to + 1, Len(before))
                    /\ n.ok
                    /\ n.from = m.from
                    /\ group2(after, n) = Rendered(parser, new_version)
                    /\ \A k \in LaterMatches(parser, before) :
                           /\ version_match_at(parser, after, k + shift).ok
                           /\ VersionAt(parser, after, k + shift) =
                                  VersionAt(parser, before, k)
                    /\ { k + shift : k \in LaterMatches(parser, before) } =
                           LaterMatches(parser, after)

\* A file with two matching lines was updated: the first holds the new
\* version and the second a version that is neither the new one nor the
\* one the first line held.
C39_Witness ==
    /\ Updated
    /\ \E f \in Range(eng_files) :
         /\ HasMatch(f)
         /\ LaterMatches(parser, disk0[f]) # {}
         /\ VersionNow(f) = Rendered(parser, new_version)
         /\ VersionNow(f) # LocatedText(f)
         /\ \A k \in LaterMatches(parser, disk[f]) :
                VersionAt(parser, disk[f], k) # VersionNow(f)

\* ======================================================================
\* Part 6: the command line program (src/main.rs).
\*
\* The files of a format are held as the version text they carry; the
\* Parser operations and the git operations are calls that succeed or fail.

SupportedTypes == { "All", "TOML", "PackageJSON", "TauriConfig" }

AllParsers == << "TomlParser", "PackageJsonParser", "TauriConfigParser" >>

\* match args.supported_types: the tauri.conf.json files come first.
selected_tauri_first(types) ==
    CASE types = "All"         -> << "TauriConfigParser", "TomlParser",
                                     "PackageJsonParser" >>
      [] types = "TOML"        -> << "TomlParser" >>
      [] types = "PackageJSON" -> << "PackageJsonParser" >>
      [] types = "TauriConfig" -> << "TauriConfigParser" >>

\* match args.supported_types: the parsers that apply_version is called
\* for, in the order of the calls.
selected(types) ==
    CASE types = "All"         -> AllParsers
      [] types = "TOML"        -> << "TomlParser" >>
      [] types = "PackageJSON" -> << "PackageJsonParser" >>
      [] types = "TauriConfig" -> << "TauriConfigParser" >>

\* get_next_version: the parsers whose get_current_version is tried, each
\* one only when those before it returned an error (or_else).
asked(types) ==
    CASE types \in { "All", "TOML" } -> AllParsers
      [] types = "PackageJSON"       -> << "PackageJsonParser" >>
      [] types = "TauriConfig"       -> << "TauriConfigParser" >>

\* The version texts of the files: 1.2.3, 1.0.0-a.1, 1.0.0-rc+b7 and
\* 1.0.18446744073709551615.
CurrentTexts ==
    { << "1", ".", "2", ".", "3" >>,
      << "1", ".", "0", ".", "0", "-", "a", ".", "1" >>,
      << "1", ".", "0", ".", "0", "-", "r", "c", "+", "b", "7" >>,
      << "1", ".", "0", "." >> \o to_string(U64_MAX) }

\* A format without files, and a format whose files carry the text.
NoFiles == [present |-> FALSE, text |-> << >>]
FormatStates == { NoFiles } \cup [present : { TRUE }, text : CurrentTexts]

\* The positional argument new_version: none, 2.0.0-rc.1 or 1.0.
NoneGiven == [some |-> FALSE, text |-> << >>]
NewVersionArgs ==
    { NoneGiven }
    \cup [some : { TRUE },
          text : { << "2", ".", "0", ".", "0", "-", "r", "c", ".", "1" >>,
                   << "1", ".", "0" >> }]

\* A format without files counts as version 0.0.0.
current_or_zero(P, fmts) ==
    IF fmts[P].present THEN Version_parse(fmts[P].text)
                       ELSE [ok |-> TRUE, version |-> NoVersion]

\* Parser::get_current_version of a format.
current_of(P, fmts) ==
    IF fmts[P].present THEN Version_parse(fmts[P].text)
                       ELSE [ok |-> FALSE, version |-> NoVersion]

\* The number of get_current_version calls that the or_else chain makes:
\* up to the first one that returns Ok.
RECURSIVE calls_made(_, _)
calls_made(ps, fmts) ==
    IF ps = << >> THEN 0
    ELSE IF current_of(Head(ps), fmts).ok THEN 1
    ELSE 1 + calls_made(Tail(ps), fmts)

\* get_next_version: `current`, the result of the last call made.
current_result(types, fmts) ==
    current_of(asked(types)[calls_made(asked(types), fmts)], fmts)

\* get_next_version, from `let mut next = current;` on.
next_of(current, checks) ==
    IF current.pre = << >>
    THEN LET r == add_one(current.patch, checks)
         IN  IF r.panic THEN PanicOutcome
             ELSE Ok([current EXCEPT !.patch = r.n, !.build = << >>])
    ELSE Ok([current EXCEPT !.pre = << >>, !.build = << >>])

\* Parser::update_version returned Ok: the paths of the format's files.
returned_files(P, fmts) ==
    IF fmts[P].present THEN << TopFile(P), SubFile(P) >> ELSE << >>

\* One call that main makes.
Event(op, P, ok, paths) ==
    [op |-> op, parser |-> P, ok |-> ok, files |-> paths,
     mode |-> "", version |-> << >>]
GitEvent(op, ok, gm, ver, paths) ==
    [op |-> op, parser |-> "", ok |-> ok, files |-> paths,
     mode |-> gm, version |-> ver]

InitMain ==
    /\ GitIdle
    /\ SemverIdle
    /\ CredIdle
    /\ RwIdle
    /\ EngIdle
    /\ cli_args \in [supported_types : SupportedTypes, git_mode : GitModes,
                     new_version : NewVersionArgs]
    /\ formats \in [Parsers -> FormatStates]
    /\ main_pc = "parse"
    /\ apply_i = 1
    /\ final_version = NoVersion
    /\ modified_files = << >>
    /\ trace = << >>
    /\ main_out = "running"

notCliVars == << gitVars, semverVars, credVars, rwVars, engVars >>

\* let version = args.new_version.map(|v| Version::parse(&v)).transpose()?;
\* and the arm Some(v) of `let final_version = match &version`.
ParseVersion ==
    /\ main_pc = "parse"
    /\ LET parsed == Version_parse(cli_args.new_version.text)
       IN  IF ~cli_args.new_version.some
           THEN /\ main_pc' = "get_next_version"
                /\ UNCHANGED << final_version, main_out >>
           ELSE IF parsed.ok
           THEN /\ final_version' = parsed.version
                /\ main_pc' = "apply_version"
                /\ UNCHANGED main_out
           ELSE /\ main_out' = "Err"
                /\ main_pc' = "exit"
                /\ UNCHANGED final_version
    /\ UNCHANGED << cli_args, formats, apply_i, modified_files, trace,
                    notCliVars >>

\* The arm None: get_next_version(path, &args.supported_types, &walk_options)?
GetNextVersion(checks) ==
    /\ main_pc = "get_next_version"
    /\ LET ps      == asked(cli_args.supported_types)
           n       == calls_made(ps, formats)
           current == current_result(cli_args.supported_types, formats)
           next    == next_of(current.version, checks)
       IN  /\ trace' = trace \o
                 [k \in 1..n |->
                     Event("get_current_version", ps[k],
                           current_of(ps[k], formats).ok, << >>)]
           /\ IF ~current.ok
              THEN /\ checks
                   /\ main_out' = "Err"
                   /\ main_pc' = "exit"
                   /\ UNCHANGED final_version
              ELSE IF next.kind = "panic"
              THEN /\ main_out' = "panic"
                   /\ main_pc' = "exit"
                   /\ UNCHANGED final_version
              ELSE /\ final_version' = next.next
                   /\ main_pc' = "apply_version"
                   /\ UNCHANGED main_out
    /\ UNCHANGED << cli_args, formats, apply_i, modified_files, notCliVars >>

\* modified_files.extend(apply_version::<P>(path, &final_version, ..)?);
\* a call that fails may have rewritten some of the files.
ApplyVersion(ok, rewritten) ==
    /\ main_pc = "apply_version"
    /\ apply_i <= Len(selected(cli_args.supported_types))
    /\ LET P     == selected(cli_args.supported_types)[apply_i]
           paths == returned_files(P, formats)
           after == IF formats[P].present /\ rewritten
                    THEN [formats EXCEPT ![P].text = Rendered(P, final_version)]
                    ELSE formats
       IN  /\ ok => rewritten
           /\ formats' = after
           /\ trace' = Append(trace,
                 Event("update_version", P, ok, IF ok THEN paths ELSE << >>))
           /\ IF ok
              THEN /\ modified_files' = modified_files \o paths
                   /\ apply_i' = apply_i + 1
                   /\ UNCHANGED << main_pc, main_out >>
              ELSE /\ main_out' = "Err"
                   /\ main_pc' = "exit"
                   /\ UNCHANGED << modified_files, apply_i >>
    /\ UNCHANGED << cli_args, final_version, notCliVars >>

\* if args.git_mode != GitMode::None, not taken: Ok(())
SkipGit ==
    /\ main_pc = "apply_version"
    /\ apply_i > Len(selected(cli_args.supported_types))
    /\ cli_args.git_mode = "None"
    /\ main_out' = "Ok"
    /\ main_pc' = "exit"
    /\ UNCHANGED << cli_args, formats, apply_i, final_version, modified_files,
                    trace, notCliVars >>

\* let git = GitTracker::open(&args.path, args.allow_insecure)?;
OpenRepository(ok) ==
    /\ main_pc = "apply_version"
    /\ apply_i > Len(selected(cli_args.supported_types))
    /\ cli_args.git_mode # "None"
    /\ trace' = Append(trace,
          GitEvent("GitTracker::open", ok, "", << >>, << >>))
    /\ IF ok
       THEN main_pc' = "execute_git_mode" /\ UNCHANGED main_out
       ELSE main_out' = "Err" /\ main_pc' = "exit"
    /\ UNCHANGED << cli_args, formats, apply_i, final_version, modified_files,
                    notCliVars >>

\* git.execute_git_mode(args.git_mode, &final_version.to_string(), &modified_files)?;
ExecuteGitMode(ok) ==
    /\ main_pc = "execute_git_mode"
    /\ trace' = Append(trace,
          GitEvent("execute_git_mode", ok, cli_args.git_mode,
                   Display(final_version), modified_files))
    /\ main_out' = IF ok THEN "Ok" ELSE "Err"
    /\ main_pc' = "exit"
    /\ UNCHANGED << cli_args, formats, apply_i, final_version, modified_files,
                    notCliVars >>

NextMain ==
    \/ ParseVersion
    \/ \E checks \in BOOLEAN : GetNextVersion(checks)
    \/ \E ok \in BOOLEAN, rewritten \in BOOLEAN : ApplyVersion(ok, rewritten)
    \/ SkipGit
    \/ \E ok \in BOOLEAN : OpenRepository(ok)
    \/ \E ok \in BOOLEAN : ExecuteGitMode(ok)

SpecMain == InitMain /\ [][NextMain]_vars

\* ----------------------------------------------------------------------
\* Properties of the command line program.

\* The update_version calls made so far, in order.
Updates == SelectSeq(trace, LAMBDA e : e.op = "update_version")

IsGitEvent(e) == e.op \in { "GitTracker::open", "execute_git_mode" }

\* The sequences of a sequence, one after the other.
RECURSIVE Flatten(_)
Flatten(seqs) ==
    IF seqs = << >> THEN << >> ELSE Head(seqs) \o Flatten(Tail(seqs))

\* The list that the update_version call of the parser returned.
ReturnedBy(P) ==
    Updates[CHOOSE j \in 1..Len(Updates) : Updates[j].parser = P].files

\* The parsers called, in the order Cargo.toml, package.json, tauri.conf.json.
CalledInOrder ==
    SelectSeq(AllParsers,
              LAMBDA P : \E j \in 1..Len(Updates) : Updates[j].parser = P)

\* C31: in a run of the program discovery, rewriting and git operations
\* run strictly in sequence: the repository is opened and execute_git_mode
\* is called only after the rewrites of all selected formats have
\* succeeded, the file list it receives is the concatenation of the lists
\* returned per format in the order Cargo.toml, package.json,
\* tauri.conf.json, and if any rewrite fails no git operation happens.
C31_RewritesThenGit ==
    /\ \A k \in 1..Len(trace) :
         IsGitEvent(trace[k]) =>
             /\ \A j \in k..Len(trace) : IsGitEvent(trace[j])
             /\ { Updates[j].parser : j \in 1..Len(Updates) } =
                    Range(selected(cli_args.supported_types))
             /\ \A j \in 1..Len(Updates) : Updates[j].ok
             /\ trace[k].op = "execute_git_mode" =>
                    trace[k].files =
                        Flatten([j \in 1..Len(CalledInOrder) |->
                                    ReturnedBy(CalledInOrder[j])])
    /\ (\E j \in 1..Len(Updates) : ~Updates[j].ok) =>
           \A k \in 1..Len(trace) : ~IsGitEvent(trace[k])

C31_Witness ==
    /\ main_pc = "exit"
    /\ cli_args.supported_types = "All"
    /\ trace # << >>
    /\ trace[Len(trace)].op = "execute_git_mode"
    /\ Len(trace[Len(trace)].files) = 4
    /\ formats["PackageJsonParser"] = NoFiles

\* C32: when the program is run without an explicit version, the version
\* it writes is the prerelease-aware increment of the current version: for
\* every current version v it is increment_semver(v), so a numeric
\* prerelease suffix is bumped and a non-numeric prerelease label is kept
\* with the patch bumped.
C32_CliIncrementIsIncrementSemver ==
    (main_pc = "apply_version" /\ apply_i = 1 /\ ~cli_args.new_version.some) =>
        LET v == current_result(cli_args.supported_types, formats).version
        IN  \E checks \in BOOLEAN :
                increment_semver(v, checks) = Ok(final_version)

\* C33: in a run of the program a supplied version string that fails to
\* parse, or a failure to find the current version when auto-incrementing,
\* ends the run with an error before any file is rewritten and before any
\* git operation.
C33_BadVersionEndsRunEarly ==
    LET bad_argument ==
            cli_args.new_version.some
                /\ ~Version_parse(cli_args.new_version.text).ok
        none_found ==
            ~cli_args.new_version.some
                /\ \A k \in 1..Len(asked(cli_args.supported_types)) :
                     ~formats[asked(cli_args.supported_types)[k]].present
    IN  (bad_argument \/ none_found) =>
            /\ main_pc = "exit" => main_out = "Err"
            /\ main_pc \notin { "apply_version", "execute_git_mode" }
            /\ \A k \in 1..Len(trace) :
                 trace[k].op = "get_current_version" /\ ~trace[k].ok

C33_Witness ==
    /\ main_pc = "exit"
    /\ ~cli_args.new_version.some
    /\ cli_args.supported_types = "PackageJSON"
    /\ ~formats["PackageJsonParser"].present
    /\ formats["TomlParser"].present
    /\ cli_args.git_mode = "CommitPush"

C33_ParseWitness ==
    /\ main_pc = "exit"
    /\ cli_args.new_version.some
    /\ ~Version_parse(cli_args.new_version.text).ok
    /\ cli_args.git_mode = "CommitPush"

====
